---- MODULE Spec2Model ----
(***************************************************************************)
(* The ingestion recorder (src/receiver/receiver.py), the scan queries and  *)
(* the reconstruction of the visualizer (src/visualizer/visualizer.py) and *)
(* the stages and the orchestrator of the point-cloud pipeline             *)
(* (src/visualizer/advanced_visualizer.py) as a state machine.             *)
(*                                                                         *)
(* Time is the wall clock in whole seconds.  A JSON number n is the tuple  *)
(* <<n>>, JSON null (Python None) is the empty tuple <<>>.  The SQLite     *)
(* tables are sequences in insertion order; the rows that are durable are  *)
(* the prefix of each table up to the watermark `committed`, the rest is   *)
(* the open transaction of the recorder's single connection.  The columns  *)
(* receive_time and message_id are written by the recorder and read by no  *)
(* code of the repository: the rows of the model leave them out.           *)
(***************************************************************************)
EXTENDS Integers, Sequences, FiniteSets, TLC

VARIABLES
    pc,                 \* position of main(): start, connecting, loop, finally, exited
    link,               \* broker session: "down" or "up" (subscribed after on_connect)
    now,                \* time.time()
    db_connection,      \* "none", "open" or "closed"
    message_counts,     \* receiver.py:34
    latencies,          \* receiver.py:33
    start_time,         \* receiver.py:35
    last_report_time,   \* receiver.py:36
    sensor_data,        \* table sensor_data, as the recorder's connection sees it
    sensor_readings,    \* table sensor_readings
    performance_stats,  \* table performance_stats
    committed,          \* number of rows of each table that are durable
    commits,            \* log of the commits performed on the connection
    delivered,          \* the last payload handed to on_message and what the log says of it
    reported,           \* the last statistics written to the log by report_statistics
    scan_data,          \* what the visualizer's last get_historical_scan returned
    first_connect,      \* the time of the first on_connect (the stream start)
    exit_status,        \* the exit status of the process once it has ended
    setup,              \* how setup_database() ended: "none" (not run), "ok" or the failure
    input_points,       \* the point array handed to a stage of the visualizer
    input_scan,         \* the scan_data handed to convert_readings_to_points
    latest_timestamp,   \* visualizer.py:35, self.latest_timestamp
    ground_plane,       \* advanced_visualizer.py:20, self.ground_plane
    returned,           \* the last call of the visualizer and what it returned or raised
    library,            \* what the Open3D build does where the source leaves it open
    local,              \* visualizer.py:37, self.local: the attribute conn of each thread
    connections,        \* the connections sqlite3.connect has returned, by handle
    point_cloud,        \* visualizer.py:36, self.point_cloud
    threads,            \* the request threads of the dashboard server: where each one is
    export,             \* the point-cloud files written by save_point_cloud
    retry_count,        \* receiver.py:307, retry_count of main()
    attempts            \* the number of calls of client.connect in main()

\* The state of the visualizer instance and of its caller
vizVars == <<input_points, input_scan, latest_timestamp, ground_plane, returned>>

\* The Open3D build and the threads of the dashboard server
serverVars == <<library, local, connections, point_cloud, threads, export>>

\* The connection loop of main()
connectVars == <<retry_count, attempts>>

vars == <<pc, link, now, db_connection, message_counts, latencies, start_time,
          last_report_time, sensor_data, sensor_readings, performance_stats,
          committed, commits, delivered, reported, scan_data, first_connect,
          exit_status, setup, vizVars, serverVars, connectVars>>

\* The globals on_message declares and the store: what a dropped payload must leave alone.
recorderState == <<message_counts, latencies, last_report_time, sensor_data,
                   sensor_readings, performance_stats, committed, commits, reported>>

----------------------------------------------------------------------------
\* Bounds of the model

MaxMsgs == 2
MaxTime == 1
MaxBatchMsgs == 250
MaxSnapMsgs == 500
MaxSnapTime == 12
MaxClockMsgs == 2
MaxClockTime == 7
MaxLen == 24

\* Program constants

BatchSize == 100
reporting_interval == 5
SnapshotFactor == 100
MsPerSecond == 1000
P95Percent == 95
max_retries == 30
RetryDelay == 5

None == <<>>
Some(v) == <<v>>

SeqMin(s) == CHOOSE x \in {s[i] : i \in 1..Len(s)} : \A i \in 1..Len(s) : x <= s[i]
SeqMax(s) == CHOOSE x \in {s[i] : i \in 1..Len(s)} : \A i \in 1..Len(s) : x >= s[i]

\* The sum of s[lo..hi], by halves
RECURSIVE SumRange(_, _, _)
SumRange(s, lo, hi) ==
    IF lo > hi THEN 0
    ELSE IF lo = hi THEN s[lo]
    ELSE SumRange(s, lo, (lo + hi) \div 2) + SumRange(s, (lo + hi) \div 2 + 1, hi)

SeqSum(s) == SumRange(s, 1, Len(s))

----------------------------------------------------------------------------
\* Payloads: what json.loads makes of the bytes

IsDict(payload) == payload.type = "dict"

\* Mutant of DecodeFails: a decoder that never raises, so the bytes go on as a value
\* that is no record.
DecodeNeverFails(payload) == FALSE

\* json.loads(msg.payload) raises (JSONDecodeError, or UnicodeDecodeError for bytes
\* that are not UTF-8): nothing of the handler has run yet.
DecodeFails(payload) == payload.type = "undecodable"

HasSendTime(payload) == IsDict(payload) /\ "send_time" \in DOMAIN payload.data

\* `"send_time" in data` on a number, or the subtraction on a null send_time,
\* raises TypeError before the counter is touched.
RaisesBeforeCount(payload) ==
    \/ payload.type = "number"
    \/ HasSendTime(payload) /\ payload.data.send_time = None

\* Mutant of LatencyMs: the difference is left in seconds.
LatencyInSeconds(receive_time, send_time) == receive_time - send_time

\* latency = (receive_time - data["send_time"]) * 1000
LatencyMs(receive_time, send_time) == (receive_time - send_time) * MsPerSecond

Latency(payload, receive_time) ==
    IF HasSendTime(payload)
    THEN Some(LatencyMs(receive_time, payload.data.send_time[1]))
    ELSE None

----------------------------------------------------------------------------
\* The store

\* db_connection.commit(): everything the connection has written becomes durable.
Commit(data, readings, stats) ==
    [data |-> Len(data), readings |-> Len(readings), stats |-> Len(stats)]

\* One entry of the commit log: which commit, at which message count, and how many
\* Scan rows it made durable.
CommitRecord(kind, count, data, old) ==
    [kind |-> kind, at |-> count, scans |-> Len(data) - old.data]

\* Mutant of BatchDue: the commit comes one message early.
BatchDueEarly(count) == count % BatchSize = BatchSize - 1

\* if message_counts % 100 == 0: db_connection.commit()
BatchDue(count) == count % BatchSize = 0

\* The INSERT of one reading raises sqlite3.Error: value REAL NOT NULL refuses a null,
\* and the fault "readings" is a failure of the store itself on the first row.
ReadingFails(item, k, fault) == item[2] = None \/ (fault = "readings" /\ k = 1)

\* executemany runs the INSERT row by row and stops at the first row that raises;
\* the rows before it stay in the open transaction.
InsertedCount(items, fault) ==
    LET bad == {k \in 1..Len(items) : ReadingFails(items[k], k, fault)}
    IN  IF bad = {} THEN Len(items)
        ELSE (CHOOSE k \in bad : \A j \in bad : k <= j) - 1

ReadingRows(data_id, items, n) ==
    [k \in 1..n |-> [data_id |-> data_id, angle |-> items[k][1], value |-> items[k][2][1]]]

\* Mutant of DbErrorWatermark: the except block logs and does not commit.
DbErrorNoCommit(old, data, readings, stats) == old

\* The watermark after the except block of store_message: "Try to commit what we can".
DbErrorWatermark(old, data, readings, stats) == Commit(data, readings, stats)

\* store_message(data, receive_time, latency) for a dict `data`; count is the
\* already incremented message_counts.  The result: the two tables, the watermark,
\* the commit performed (a sequence of at most one record), whether sqlite3.Error
\* was caught, and cursor.lastrowid (0: no Scan row was inserted).
store_message(data, latency, count, fault) ==
    LET timestamp == IF "timestamp" \in DOMAIN data THEN data.timestamp ELSE Some(now)
        device_id == IF "device_id" \in DOMAIN data THEN data.device_id ELSE "unknown"
        scanFails == fault = "scan" \/ timestamp = None
        data_id   == Len(sensor_data) + 1
        items     == IF "readings" \in DOMAIN data THEN data.readings ELSE <<>>
        n         == InsertedCount(items, fault)
        newData   == Append(sensor_data,
                            [id |-> data_id, timestamp |-> timestamp[1],
                             device_id |-> device_id, latency_ms |-> latency])
        newReadings == sensor_readings \o ReadingRows(data_id, items, n)
    IN  IF scanFails
        THEN [data |-> sensor_data, readings |-> sensor_readings,
              committed |-> DbErrorWatermark(committed, sensor_data, sensor_readings,
                                             performance_stats),
              commit |-> <<CommitRecord("error", count, sensor_data, committed)>>,
              error |-> TRUE, data_id |-> 0]
        ELSE IF n < Len(items)
        THEN [data |-> newData, readings |-> newReadings,
              committed |-> DbErrorWatermark(committed, newData, newReadings,
                                             performance_stats),
              commit |-> <<CommitRecord("error", count, newData, committed)>>,
              error |-> TRUE, data_id |-> data_id]
        ELSE IF BatchDue(count)
        THEN [data |-> newData, readings |-> newReadings,
              committed |-> Commit(newData, newReadings, performance_stats),
              commit |-> <<CommitRecord("batch", count, newData, committed)>>,
              error |-> FALSE, data_id |-> data_id]
        ELSE [data |-> newData, readings |-> newReadings,
              committed |-> committed, commit |-> <<>>,
              error |-> FALSE, data_id |-> data_id]

----------------------------------------------------------------------------
\* Statistics

\* Mutant of sorted: descending order.
SortedDescending(s) ==
    [k \in 1..Len(s) |->
        CHOOSE v \in {s[i] : i \in 1..Len(s)} :
            /\ Cardinality({i \in 1..Len(s) : s[i] > v}) < k
            /\ k <= Cardinality({i \in 1..Len(s) : s[i] >= v})]

\* sorted(latencies): the elements of s in ascending order; the k-th of them is the
\* value with fewer than k elements below it and at least k elements not above it.
sorted(s) ==
    [k \in 1..Len(s) |->
        CHOOSE v \in {s[i] : i \in 1..Len(s)} :
            /\ Cardinality({i \in 1..Len(s) : s[i] < v}) < k
            /\ k <= Cardinality({i \in 1..Len(s) : s[i] <= v})]

\* int(len(latencies) * 0.95): in IEEE doubles this is floor(19 n / 20) for every n
\* below two million.
P95Index(n) == (n * P95Percent) \div 100

\* sorted(latencies)[int(len(latencies) * 0.95)], Python indexes from 0
p95_latency(lat) == sorted(lat)[P95Index(Len(lat)) + 1]

\* runtime = time.time() - start_time; start_time is set whenever latencies is not empty
Runtime(t, start) == t - start[1]

\* if message_counts % (100 * reporting_interval) == 0: save_statistics_snapshot(...)
SnapshotDue(count) == count % (SnapshotFactor * reporting_interval) = 0

\* report_statistics(): skipped without a latency sample; throughput =
\* message_counts / runtime raises ZeroDivisionError when no time has passed.
report_statistics(lat, count, t, start) ==
    IF lat = <<>> THEN [ran |-> FALSE, raised |-> FALSE]
    ELSE IF Runtime(t, start) = 0 THEN [ran |-> FALSE, raised |-> TRUE]
    ELSE [ran |-> TRUE, raised |-> FALSE,
          stats |-> [timestamp |-> t,
                     message_count |-> count,
                     avg_latency |-> [num |-> SeqSum(lat), den |-> Len(lat)],
                     min_latency |-> SeqMin(lat),
                     max_latency |-> SeqMax(lat),
                     p95_latency |-> p95_latency(lat),
                     throughput |-> [num |-> count, den |-> Runtime(t, start)]],
          snapshot |-> SnapshotDue(count)]

----------------------------------------------------------------------------
\* The visualizer's query.  It runs on a connection of its own, so it sees the
\* durable rows only.

\* Text order of the angle labels (ORDER BY r.angle compares the labels as text):
\* the labels of the sender, every 10 degrees, and two labels without a number.
AngleOrder ==
    <<"angle", "angle_0", "angle_10", "angle_100", "angle_110",
      "angle_120", "angle_130", "angle_140", "angle_150", "angle_160",
      "angle_170", "angle_180", "angle_190", "angle_20", "angle_200",
      "angle_210", "angle_220", "angle_230", "angle_240", "angle_250",
      "angle_260", "angle_270", "angle_280", "angle_290", "angle_30",
      "angle_300", "angle_310", "angle_320", "angle_330", "angle_340",
      "angle_350", "angle_40", "angle_50", "angle_60", "angle_70",
      "angle_80", "angle_90", "angle_x">>
AngleRank(a) == CHOOSE i \in 1..Len(AngleOrder) : AngleOrder[i] = a

\* Mutant of JoinRows: the join without its ON condition.
JoinRowsNoOn(data, readings, timestamp) ==
    {<<i, j>> \in (1..Len(data)) \X (1..Len(readings)) :
        data[i].timestamp = timestamp}

\* SELECT ... FROM sensor_data s JOIN sensor_readings r ON s.id = r.data_id
\* WHERE s.timestamp = ?
JoinRows(data, readings, timestamp) ==
    {<<i, j>> \in (1..Len(data)) \X (1..Len(readings)) :
        /\ data[i].timestamp = timestamp
        /\ readings[j].data_id = data[i].id}

\* get_historical_scan(timestamp): the values it can return.  None without a joined
\* row; otherwise the device of the first row in angle order and a dict in which a
\* later row overwrites an earlier one with the same label (rows with equal labels
\* come in an order the query does not fix).
get_historical_scan(data, readings, timestamp) ==
    LET rows   == JoinRows(data, readings, timestamp)
        angles == {readings[r[2]].angle : r \in rows}
        values(a) == {readings[r[2]].value : r \in {q \in rows : readings[q[2]].angle = a}}
        ranks  == {AngleRank(a) : a \in angles}
        least  == CHOOSE k \in ranks : \A j \in ranks : k <= j
        first  == {r \in rows : readings[r[2]].angle = AngleOrder[least]}
    IN  IF rows = {} THEN {None}
        ELSE {Some([timestamp |-> timestamp,
                    device_id |-> data[f[1]].device_id,
                    readings  |-> m]) :
                f \in first,
                m \in IF \A a \in angles : Cardinality(values(a)) = 1
                      THEN {[a \in angles |-> CHOOSE v \in values(a) : TRUE]}
                      ELSE {g \in [angles -> {readings[r[2]].value : r \in rows}] :
                               \A a \in angles : g[a] \in values(a)} }

\* get_latest_scan(): the scan of the largest timestamp, found by the same query
\* (None for an empty table and for a largest timestamp of 0, `if not latest_time`)
get_latest_scan(data, readings) ==
    IF data = <<>> THEN {None}
    ELSE LET latest_time == SeqMax([i \in 1..Len(data) |-> data[i].timestamp])
         IN  IF latest_time = 0 THEN {None}
             ELSE get_historical_scan(data, readings, latest_time)

\* The items of a dict returned by the two queries, in insertion order: the rows come
\* ordered by label and a label keeps the place of its first row.
DictItems(m) ==
    LET keys == SelectSeq(AngleOrder, LAMBDA a : a \in DOMAIN m)
    IN  [k \in 1..Len(keys) |-> <<keys[k], m[keys[k]]>>]

----------------------------------------------------------------------------
\* The recorder

\* The request threads of the dashboard server (the development server of
\* point_cloud_server.py:287 runs every callback on a thread of its own)
Threads == {"t1", "t2"}

\* Mutant of Local: one attribute for all the threads (self.conn).
Shared(thread) == "self"

\* self.local = threading.local(): a thread sees the attributes it has set itself
Local(thread) == thread

Slots == Threads \cup {"self"}

\* A thread that runs no callback; `out` is what its last callback returned
IdleThread ==
    [at |-> "idle", op |-> "", timestamp |-> None, conn |-> None, scan |-> None,
     fig |-> None, out |-> None]

\* No thread of the dashboard server runs and none has run.
ThreadsIdle ==
    /\ local = [slot \in Slots |-> None]
    /\ connections = <<>>
    /\ point_cloud = None
    /\ threads = [thread \in Threads |-> IdleThread]
    /\ export = {}

\* No Open3D call has been made either.
ServerIdle ==
    /\ library = None
    /\ ThreadsIdle

Init ==
    /\ pc = "start"
    /\ retry_count = 0
    /\ attempts = 0
    /\ link = "down"
    /\ now = 0
    /\ db_connection = "none"
    /\ message_counts = 0
    /\ latencies = <<>>
    /\ start_time = None
    /\ last_report_time = 0
    /\ sensor_data = <<>>
    /\ sensor_readings = <<>>
    /\ performance_stats = <<>>
    /\ committed = [data |-> 0, readings |-> 0, stats |-> 0]
    /\ commits = <<>>
    /\ delivered = None
    /\ reported = None
    /\ scan_data = None
    /\ first_connect = None
    /\ exit_status = None
    /\ setup = "none"
    /\ input_points = <<>>
    /\ input_scan = None
    /\ latest_timestamp = None
    /\ ground_plane = None
    /\ returned = None
    /\ ServerIdle

\* What can go wrong in setup_database(): the data directory cannot be made
\* (mkdir raises OSError), the store cannot be opened (sqlite3.connect raises) or
\* its schema cannot be set up (ensure_db_schema raises).
SetupFaults == {"mkdir", "connect", "schema"}

\* setup_database() in main().  A failure is logged and reaches main's
\* `except Exception`; after a schema failure the connection is left closed.
setup_database(fault) ==
    /\ pc = "start"
    /\ setup' = IF fault = "none" THEN "ok" ELSE fault
    /\ db_connection' = CASE fault = "none" -> "open"
                          [] fault = "schema" -> "closed"
                          [] OTHER -> db_connection
    /\ pc' = IF fault = "none" THEN "connecting" ELSE "except"
    /\ UNCHANGED <<link, now, message_counts, latencies, start_time, last_report_time,
                   sensor_data, sensor_readings, performance_stats, committed, commits,
                   delivered, reported, scan_data, first_connect, exit_status, vizVars,
                   serverVars, connectVars>>

\* setup_database(): the store opens and the schema is in place
SetupDatabase == setup_database("none")

\* Mutant of MayAttempt: the loop goes on until one attempt succeeds.
MayAttemptForever == TRUE

\* `while not connected and retry_count < max_retries`, not connected yet
MayAttempt == retry_count < max_retries

\* client.connect(BROKER_ADDRESS, PORT) succeeds; main enters client.loop_forever()
Connect ==
    /\ pc = "connecting"
    /\ MayAttempt
    /\ attempts' = attempts + 1
    /\ pc' = "loop"
    /\ UNCHANGED <<link, now, db_connection, message_counts, latencies, start_time,
                   last_report_time, sensor_data, sensor_readings, performance_stats,
                   committed, commits, delivered, reported, scan_data, first_connect,
                   exit_status, setup, vizVars, serverVars, retry_count>>

\* client.connect raises: the except block counts the failure and sleeps
ConnectFails ==
    /\ pc = "connecting"
    /\ MayAttempt
    /\ attempts' = attempts + 1
    /\ retry_count' = retry_count + 1
    /\ now' = now + RetryDelay
    /\ UNCHANGED <<pc, link, db_connection, message_counts, latencies, start_time,
                   last_report_time, sensor_data, sensor_readings, performance_stats,
                   committed, commits, delivered, reported, scan_data, first_connect,
                   exit_status, setup, vizVars, serverVars>>

\* The loop ends without a connection: `return 1`, the finally block closes the
\* database and exit(main()) ends the process.
ReturnFailure ==
    /\ pc = "connecting"
    /\ ~MayAttempt
    /\ pc' = "exited"
    /\ committed' = Commit(sensor_data, sensor_readings, performance_stats)
    /\ commits' = Append(commits,
           CommitRecord("close", message_counts, sensor_data, committed))
    /\ db_connection' = "closed"
    /\ exit_status' = Some(1)
    /\ UNCHANGED <<link, now, message_counts, latencies, start_time, last_report_time,
                   sensor_data, sensor_readings, performance_stats, delivered, reported,
                   scan_data, first_connect, setup, vizVars, serverVars, connectVars>>

\* on_connect: runs for the first session and again after every reconnect
on_connect ==
    /\ pc = "loop"
    /\ link = "down"
    /\ link' = "up"
    /\ start_time' = Some(now)
    /\ first_connect' = IF first_connect = None THEN Some(now) ELSE first_connect
    /\ UNCHANGED <<pc, now, db_connection, message_counts, latencies, last_report_time,
                   sensor_data, sensor_readings, performance_stats, committed, commits,
                   delivered, reported, scan_data, exit_status, setup, vizVars, serverVars,
                   connectVars>>

\* The broker session drops; loop_forever reconnects and on_connect runs again.
Disconnect ==
    /\ pc = "loop"
    /\ link = "up"
    /\ link' = "down"
    /\ UNCHANGED <<pc, now, db_connection, message_counts, latencies, start_time,
                   last_report_time, sensor_data, sensor_readings, performance_stats,
                   committed, commits, delivered, reported, scan_data, first_connect,
                   exit_status, setup, vizVars, serverVars, connectVars>>

\* The wall clock advances by d seconds.
Tick(d) ==
    /\ now' = now + d
    /\ UNCHANGED <<pc, link, db_connection, message_counts, latencies, start_time,
                   last_report_time, sensor_data, sensor_readings, performance_stats,
                   committed, commits, delivered, reported, scan_data, first_connect,
                   exit_status, setup, vizVars, serverVars, connectVars>>

Delivered(payload, log, data_id) ==
    Some([payload |-> payload, receive_time |-> now, log |-> log, data_id |-> data_id])

\* on_message(client, userdata, msg) with the store failing as `fault` says
on_message(payload, fault) ==
    /\ pc = "loop"
    /\ link = "up"
    /\ IF DecodeFails(payload)
       THEN /\ delivered' = Delivered(payload, {"Error decoding message"}, 0)
            /\ UNCHANGED recorderState
       ELSE IF RaisesBeforeCount(payload)
       THEN /\ delivered' = Delivered(payload, {"Error processing message"}, 0)
            /\ UNCHANGED recorderState
       ELSE IF ~IsDict(payload)
       THEN \* counted, then data.get raises AttributeError in store_message
            /\ message_counts' = message_counts + 1
            /\ delivered' = Delivered(payload, {"Error processing message"}, 0)
            /\ UNCHANGED <<latencies, last_report_time, sensor_data, sensor_readings,
                           performance_stats, committed, commits, reported>>
       ELSE LET latency == Latency(payload, now)
                lat     == IF latency = None THEN latencies
                           ELSE Append(latencies, latency[1])
                count   == message_counts + 1
                s       == store_message(payload.data, latency, count, fault)
                due     == now - last_report_time > reporting_interval
                r       == report_statistics(lat, count, now, start_time)
                snap    == due /\ r.ran /\ r.snapshot
                stats   == IF snap THEN Append(performance_stats, r.stats)
                           ELSE performance_stats
            IN  /\ message_counts' = count
                /\ latencies' = lat
                /\ sensor_data' = s.data
                /\ sensor_readings' = s.readings
                /\ performance_stats' = stats
                /\ committed' = IF snap THEN Commit(s.data, s.readings, stats)
                                ELSE s.committed
                /\ commits' = commits \o s.commit \o
                       (IF snap
                        THEN <<CommitRecord("snapshot", count, s.data, s.committed)>>
                        ELSE <<>>)
                /\ reported' = IF due /\ r.ran THEN Some(r.stats) ELSE reported
                /\ last_report_time' = IF due /\ ~r.raised THEN now ELSE last_report_time
                /\ delivered' = Delivered(payload,
                       (IF s.error THEN {"Database error"} ELSE {}) \cup
                       (IF due /\ r.raised THEN {"Error processing message"} ELSE {}),
                       s.data_id)
    /\ UNCHANGED <<pc, link, now, db_connection, start_time, scan_data, first_connect,
                   exit_status, setup, vizVars, serverVars, connectVars>>

\* handle_exit(sig, frame): the final report, close_database(), sys.exit(0).  A
\* ZeroDivisionError of the report leaves the handler before close_database and is
\* logged by main's `except Exception`.
handle_exit ==
    /\ pc \in {"start", "connecting", "loop"}
    /\ LET r     == report_statistics(latencies, message_counts, now, start_time)
           snap  == r.ran /\ r.snapshot
           stats == IF snap THEN Append(performance_stats, r.stats)
                    ELSE performance_stats
           mid   == IF snap THEN Commit(sensor_data, sensor_readings, stats)
                    ELSE committed
           snapc == IF snap
                    THEN <<CommitRecord("snapshot", message_counts, sensor_data, committed)>>
                    ELSE <<>>
       IN  IF r.raised
           THEN /\ pc' = "except"
                /\ UNCHANGED <<db_connection, performance_stats, committed, commits,
                               reported>>
           ELSE /\ pc' = "unwinding"
                /\ reported' = IF r.ran THEN Some(r.stats) ELSE reported
                /\ performance_stats' = stats
                /\ IF db_connection = "none"
                   THEN /\ committed' = mid
                        /\ commits' = commits \o snapc
                        /\ UNCHANGED db_connection
                   ELSE /\ committed' = Commit(sensor_data, sensor_readings, stats)
                        /\ commits' = commits \o snapc \o
                               <<CommitRecord("close", message_counts, sensor_data, mid)>>
                        /\ db_connection' = "closed"
    /\ UNCHANGED <<link, now, message_counts, latencies, start_time, last_report_time,
                   sensor_data, sensor_readings, delivered, scan_data, first_connect,
                   exit_status, setup, vizVars, serverVars, connectVars>>

\* The finally block of main(): close_database() once more.  `if db_connection:` is
\* true of a closed connection as well, and commit() on it raises ProgrammingError.
MainFinally ==
    /\ pc \in {"unwinding", "except"}
    /\ pc' = "exited"
    /\ IF db_connection = "open"
       THEN /\ committed' = Commit(sensor_data, sensor_readings, performance_stats)
            /\ commits' = Append(commits,
                   CommitRecord("close", message_counts, sensor_data, committed))
            /\ db_connection' = "closed"
            /\ exit_status' = Some(0)
       ELSE /\ exit_status' = IF db_connection = "closed" THEN Some(1) ELSE Some(0)
            /\ UNCHANGED <<committed, commits, db_connection>>
    /\ UNCHANGED <<link, now, message_counts, latencies, start_time, last_report_time,
                   sensor_data, sensor_readings, performance_stats, delivered, reported,
                   scan_data, first_connect, setup, vizVars, serverVars, connectVars>>

\* A visualizer asks for the scan of one timestamp.
GetHistoricalScan(timestamp) ==
    /\ db_connection # "none"
    /\ \E result \in get_historical_scan(SubSeq(sensor_data, 1, committed.data),
                                         SubSeq(sensor_readings, 1, committed.readings),
                                         timestamp) :
           scan_data' = Some([asked |-> timestamp, result |-> result])
    /\ UNCHANGED <<pc, link, now, db_connection, message_counts, latencies, start_time,
                   last_report_time, sensor_data, sensor_readings, performance_stats,
                   committed, commits, delivered, reported, first_connect, exit_status,
                   setup, vizVars, serverVars, connectVars>>

----------------------------------------------------------------------------
\* Inputs

Undecodable   == [type |-> "undecodable", data |-> [raw |-> "{"]]
ListPayload   == [type |-> "list", data |-> [raw |-> "[]"]]
NumberPayload == [type |-> "number", data |-> [raw |-> "5"]]
Dict(fields)  == [type |-> "dict", data |-> fields]

\* The store fails on the INSERT of the Scan row, on the first Reading row, or not at all.
Faults == {"none", "scan", "readings"}

TwoReadings == << <<"angle_0", Some(100)>>, <<"angle_90", Some(50)>> >>
NullReading == << <<"angle_0", Some(70)>>, <<"angle_90", None>>, <<"angle_180", Some(50)>> >>

\* A message of the sender (sender.py:78-84) sent `delay` seconds ago
SenderMessage(timestamp, delay, readings) ==
    Dict([timestamp |-> Some(timestamp), device_id |-> "lidar-1",
          send_time |-> Some(now - delay), readings |-> readings])

StorePayloads ==
    { Undecodable, ListPayload, NumberPayload,
      SenderMessage(1, 0, TwoReadings),
      SenderMessage(2, 1, NullReading),
      SenderMessage(2, 0, <<>>),
      Dict([timestamp |-> Some(1), device_id |-> "lidar-2",
            readings |-> << <<"angle_90", Some(100)>> >>]),
      Dict([device_id |-> "lidar-2"]),
      Dict([timestamp |-> None, readings |-> TwoReadings]),
      Dict([timestamp |-> Some(2), send_time |-> None]) }

Timestamps == {1, 2}

----------------------------------------------------------------------------
\* SpecStore: a few messages of every shape, store faults, shutdown, queries

StoreDeliver ==
    /\ message_counts < MaxMsgs
    /\ \E payload \in StorePayloads, fault \in Faults : on_message(payload, fault)

StoreTick == now < MaxTime /\ Tick(1)

StoreQuery == \E timestamp \in Timestamps : GetHistoricalScan(timestamp)

NextStore ==
    \/ SetupDatabase
    \/ Connect
    \/ on_connect
    \/ StoreTick
    \/ StoreDeliver
    \/ StoreQuery
    \/ handle_exit
    \/ MainFinally

SpecStore == Init /\ [][NextStore]_vars

----------------------------------------------------------------------------
\* Claims checked under SpecStore

\* The readings of a payload, in the order of the dict
ReadingsOf(payload) ==
    IF IsDict(payload) /\ "readings" \in DOMAIN payload.data
    THEN payload.data.readings ELSE <<>>

\* The message contract of the transport: a record with a timestamp, a device and
\* a readings map of numbers; send_time, when given, is a number.
WellFormed(payload) ==
    /\ IsDict(payload)
    /\ {"timestamp", "device_id", "readings"} \subseteq DOMAIN payload.data
    /\ payload.data.timestamp # None
    /\ "send_time" \in DOMAIN payload.data => payload.data.send_time # None
    /\ \A k \in 1..Len(payload.data.readings) : payload.data.readings[k][2] # None

\* The last delivered payload inserted a Scan row and that row is durable.
LastScanCommitted ==
    /\ delivered # None
    /\ delivered[1].data_id > 0
    /\ delivered[1].data_id <= committed.data

CommittedReadingsOf(data_id) ==
    {j \in 1..committed.readings : sensor_readings[j].data_id = data_id}

\* C3: a durable Scan row has as many durable Reading rows as its message had
\* angle/distance pairs, whichever commit made it durable (stated of the Scan row of
\* the last delivered message).
C3_ScanCommittedWithAllReadings ==
    LastScanCommitted =>
        Cardinality(CommittedReadingsOf(delivered[1].data_id))
            = Len(ReadingsOf(delivered[1].payload))

\* C4: a step of on_message in which the store write fails ends with nothing left
\* in the open transaction and with the recorder still receiving (main in
\* loop_forever, the session up, the connection open, no exit status), and a
\* well-formed message handled without a store failure is counted and stored with
\* all its readings in whatever state it arrives, after a failure as well.
C4_PersistenceFailureNotFatal ==
    [][\A fault \in Faults :
          (delivered' # None /\ on_message(delivered'[1].payload, fault)) =>
            LET payload == delivered'[1].payload
            IN
              /\ "Database error" \in delivered'[1].log =>
                    /\ committed' = Commit(sensor_data', sensor_readings',
                                           performance_stats')
                    /\ commits' # commits
                    /\ pc' = "loop" /\ link' = "up"
                    /\ db_connection' = "open" /\ exit_status' = None
              /\ (WellFormed(payload) /\ fault = "none") =>
                    /\ message_counts' = message_counts + 1
                    /\ Len(sensor_data') = Len(sensor_data) + 1
                    /\ Len(sensor_readings')
                           = Len(sensor_readings) + Len(ReadingsOf(payload))
                    /\ "Database error" \notin delivered'[1].log]_vars

\* C4 witness: a well-formed message was stored after an earlier store failure.
C4_Witness ==
    /\ pc = "loop"
    /\ \E i \in 1..Len(commits) : commits[i].kind = "error"
    /\ delivered # None
    /\ WellFormed(delivered[1].payload)
    /\ delivered[1].log = {}
    /\ delivered[1].data_id = Len(sensor_data)

\* C5: handling a payload that cannot be decoded changes neither the counter, the
\* latency sequence, the last-report time nor any table, and performs no commit and
\* no report.
C5_UndecodableChangesNothing ==
    [][\A fault \in Faults :
          on_message(Undecodable, fault) => UNCHANGED recorderState]_vars

\* C5 witness: an undecodable payload was handled by a recorder that had already
\* counted and stored messages.
C5_Witness ==
    /\ delivered # None
    /\ delivered[1].payload = Undecodable
    /\ "Error decoding message" \in delivered[1].log
    /\ message_counts > 0
    /\ Len(sensor_data) > committed.data

\* C7: for a decoded record, the latency of its Scan row is (receive_time -
\* send_time) * 1000 when send_time is given (a number) and null otherwise, and
\* exactly in the first case that value is appended to latencies; a decoded payload
\* that is no record appends nothing.
C7_LatencyStoredAndAppended ==
    [][\A fault \in Faults :
          (/\ delivered' # None
           /\ on_message(delivered'[1].payload, fault)
           /\ ~DecodeFails(delivered'[1].payload)
           /\ ~RaisesBeforeCount(delivered'[1].payload)) =>
              LET payload == delivered'[1].payload
                  given == IsDict(payload) /\ "send_time" \in DOMAIN payload.data
                  value == (delivered'[1].receive_time - payload.data.send_time[1]) * 1000
              IN  /\ latencies' = IF given THEN Append(latencies, value) ELSE latencies
                  /\ delivered'[1].data_id > 0 =>
                        sensor_data'[delivered'[1].data_id].latency_ms
                            = IF given THEN Some(value) ELSE None]_vars

\* C7 witness: a message sent one second before its receipt is stored with 1000 ms.
C7_Witness ==
    /\ delivered # None
    /\ delivered[1].data_id > 0
    /\ sensor_data[delivered[1].data_id].latency_ms = Some(1000)
    /\ latencies # <<>>
    /\ latencies[Len(latencies)] = 1000
    /\ \E i \in 1..Len(sensor_data) : sensor_data[i].latency_ms = None

\* The readings map of a payload as a mapping from angle label to distance
ReadingsMap(items) ==
    [a \in {items[k][1] : k \in 1..Len(items)} |->
        (CHOOSE k \in 1..Len(items) : items[k][1] = a)]

MapOf(items) ==
    [a \in DOMAIN ReadingsMap(items) |-> items[ReadingsMap(items)[a]][2][1]]

\* The last delivered message carried a readings map and the timestamp t, was
\* stored without an error, is durable, and no other stored scan has the timestamp.
StoredAlone(t) ==
    /\ LastScanCommitted
    /\ delivered[1].log = {}
    /\ "readings" \in DOMAIN delivered[1].payload.data
    /\ sensor_data[delivered[1].data_id].timestamp = t
    /\ \A i \in 1..Len(sensor_data) :
           sensor_data[i].timestamp = t => i = delivered[1].data_id

RoundTrip(t) ==
    /\ scan_data'[1].result # None
    /\ scan_data'[1].result[1].readings = MapOf(ReadingsOf(delivered[1].payload))

\* C10 as claimed: get_historical_scan(t) returns the readings map of the message
\* stored alone under t, whatever the map.
C10_RoundTripAnyMap ==
    [][\A t \in Timestamps :
          (GetHistoricalScan(t) /\ StoredAlone(t)) => RoundTrip(t)]_vars

\* C10 amended: get_historical_scan(t) returns the readings map M of the message
\* stored alone under t when M is not empty; for an empty M it returns None.
C10_RoundTripNonEmptyMap ==
    [][\A t \in Timestamps :
          (GetHistoricalScan(t) /\ StoredAlone(t)) =>
              IF ReadingsOf(delivered[1].payload) # <<>>
              THEN RoundTrip(t)
              ELSE scan_data'[1].result = None]_vars

\* C10 witness: the scan {angle_0: 100, angle_90: 50} came back from the store
\* while another scan with other readings is stored under another timestamp.
C10_Witness ==
    /\ StoredAlone(1)
    /\ Len(sensor_data) > 1
    /\ ReadingsOf(delivered[1].payload) = TwoReadings
    /\ scan_data # None
    /\ scan_data[1].asked = 1
    /\ scan_data[1].result # None
    /\ scan_data[1].result[1].readings = [angle_0 |-> 100, angle_90 |-> 50]

----------------------------------------------------------------------------
\* SpecBatch: a long stream of well-formed messages in which the payload that
\* brings the counter to a multiple of the batch size may be one that is no record

AtBatchBoundary == (message_counts + 1) % BatchSize = 0

StreamMessage == SenderMessage(1, 0, TwoReadings)

BatchDeliver ==
    /\ message_counts < MaxBatchMsgs
    /\ \E payload \in {StreamMessage} \cup
                      (IF AtBatchBoundary THEN {ListPayload} ELSE {}) :
           on_message(payload, "none")

\* One second passes between the connect and the stream.
BatchTick == now < 1 /\ message_counts = 0 /\ Tick(1)

NextBatch ==
    \/ SetupDatabase
    \/ Connect
    \/ on_connect
    \/ BatchTick
    \/ BatchDeliver
    \/ handle_exit
    \/ MainFinally

SpecBatch == Init /\ [][NextBatch]_vars

\* The commits of store_message (the batch commit and the commit after a store
\* failure) and those of close_database
StoreCommits == SelectSeq(commits, LAMBDA c : c.kind \in {"batch", "error"})
CloseCommits == SelectSeq(commits, LAMBDA c : c.kind = "close")

\* C1: as long as every counted message was a well-formed one stored without a
\* failure, store_message has committed floor(N / 100) times, the i-th time right
\* after message 100 * i and covering 100 messages, and while the connection is
\* open exactly the first 100 * floor(N / 100) messages are durable; once the
\* connection is closed there is exactly one commit of close_database, it is the
\* last commit, it made the remaining N mod 100 messages durable, and every row
\* written is durable.
C1_BatchCadence ==
    Len(sensor_data) = message_counts =>
        /\ Len(StoreCommits) = message_counts \div BatchSize
        /\ \A i \in 1..Len(StoreCommits) :
               /\ StoreCommits[i].kind = "batch"
               /\ StoreCommits[i].at = BatchSize * i
               /\ StoreCommits[i].scans = BatchSize
        /\ db_connection = "open" =>
               /\ CloseCommits = <<>>
               /\ committed.data = BatchSize * (message_counts \div BatchSize)
        /\ db_connection = "closed" =>
               /\ Len(CloseCommits) = 1
               /\ commits[Len(commits)].kind = "close"
               /\ commits[Len(commits)].scans = message_counts % BatchSize
               /\ committed = Commit(sensor_data, sensor_readings, performance_stats)

\* C1 witness: 250 well-formed messages, commits after message 100 and after
\* message 200, and the commit of the shutdown that covers the last 50.
C1_Witness ==
    /\ message_counts = 250
    /\ Len(sensor_data) = 250
    /\ pc = "unwinding"
    /\ db_connection = "closed"
    /\ commits = << [kind |-> "batch", at |-> 100, scans |-> 100],
                    [kind |-> "batch", at |-> 200, scans |-> 100],
                    [kind |-> "close", at |-> 250, scans |-> 50] >>
    /\ committed.data = 250

\* C2: the messages counted as handled whose rows are not yet durable number at
\* most 99 (BatchSize - 1) in every state.
C2_AtMost99Uncommitted ==
    Len(sensor_data) - committed.data <= BatchSize - 1

----------------------------------------------------------------------------
\* SpecSnap: the stream up to the first snapshot milestone, the clock read at the
\* batch boundaries

SnapDeliver ==
    /\ message_counts < MaxSnapMsgs
    /\ on_message(StreamMessage, "none")

SnapTick ==
    /\ AtBatchBoundary
    /\ now + reporting_interval + 1 <= MaxSnapTime
    /\ Tick(reporting_interval + 1)

NextSnap ==
    \/ SetupDatabase
    \/ Connect
    \/ on_connect
    \/ SnapTick
    \/ SnapDeliver
    \/ handle_exit
    \/ MainFinally

SpecSnap == Init /\ [][NextSnap]_vars

SnapshotPeriod == SnapshotFactor * reporting_interval

\* C6: once message number 500 * k has been handled with a latency sample at hand,
\* a durable PerformanceSnapshot row with message_count = 500 * k exists, whatever
\* the clock did.
C6_SnapshotAtEveryMilestone ==
    latencies # <<>> =>
        \A k \in 1..(message_counts \div SnapshotPeriod) :
            \E i \in 1..committed.stats :
                performance_stats[i].message_count = SnapshotPeriod * k

----------------------------------------------------------------------------
\* SpecClock: a short stream over a session that drops and reconnects

ClockDeliver ==
    /\ message_counts < MaxClockMsgs
    /\ \E delay \in {0, 1} : on_message(SenderMessage(1, delay, <<>>), "none")

ClockTick == now < MaxClockTime /\ Tick(1)

NextClock ==
    \/ SetupDatabase
    \/ Connect
    \/ on_connect
    \/ Disconnect
    \/ ClockTick
    \/ ClockDeliver
    \/ handle_exit
    \/ MainFinally

SpecClock == Init /\ [][NextClock]_vars

\* C9: the throughput of every report is the cumulative message count over the
\* time since the stream start, the first on_connect, whatever reconnects followed.
C9_ThroughputSinceStreamStart ==
    reported # None =>
        reported[1].throughput =
            [num |-> reported[1].message_count,
             den |-> reported[1].timestamp - first_connect[1]]

----------------------------------------------------------------------------
\* SpecStats: the report over latency sequences of every length up to MaxLen.
\* The initial states are those of a recorder that has stored Len(latencies)
\* messages without readings since it connected at time 0 and has not reported yet.

LatencyPattern(n, a, b, m) == [i \in 1..n |-> ((i * a + b) % m) * MsPerSecond]

InitStats ==
    /\ pc = "loop"
    /\ retry_count = 0
    /\ attempts = 1
    /\ link = "up"
    /\ now = reporting_interval + 1
    /\ db_connection = "open"
    /\ \E n \in 1..MaxLen, a \in {1, 3, 7}, b \in {0, 1}, m \in {2, 5, 23} :
           /\ latencies = LatencyPattern(n, a, b, m)
           /\ message_counts = n
           /\ sensor_data = [i \in 1..n |->
                  [id |-> i, timestamp |-> 1, device_id |-> "lidar-1",
                   latency_ms |-> Some(LatencyPattern(n, a, b, m)[i])]]
    /\ start_time = Some(0)
    /\ last_report_time = 0
    /\ sensor_readings = <<>>
    /\ performance_stats = <<>>
    /\ committed = [data |-> 0, readings |-> 0, stats |-> 0]
    /\ commits = <<>>
    /\ delivered = None
    /\ reported = None
    /\ scan_data = None
    /\ first_connect = Some(0)
    /\ exit_status = None
    /\ setup = "ok"
    /\ input_points = <<>>
    /\ input_scan = None
    /\ latest_timestamp = None
    /\ ground_plane = None
    /\ returned = None
    /\ ServerIdle

\* One more message arrives and the report is due.
StatsDeliver ==
    /\ reported = None
    /\ \E delay \in {0, 1, 2} : on_message(SenderMessage(1, delay, <<>>), "none")

NextStats ==
    \/ StatsDeliver
    \/ handle_exit
    \/ MainFinally

SpecStats == InitStats /\ [][NextStats]_vars

LatencyCount(P(_)) == Cardinality({i \in 1..Len(latencies) : P(latencies[i])})

\* C8: the reported p95 is the element at index floor(0.95 * N) of the N latencies
\* in ascending order (at most that many latencies are smaller, at most N - 1 -
\* index are larger), the index lies in 0..N-1, and min <= p95 <= max.
C8_P95NearestRank ==
    reported # None =>
        LET N     == Len(latencies)
            index == (19 * N) \div 20
            p95   == reported[1].p95_latency
        IN  /\ N > 0
            /\ index \in 0..(N - 1)
            /\ \E i \in 1..N : latencies[i] = p95
            /\ LatencyCount(LAMBDA x : x < p95) <= index
            /\ LatencyCount(LAMBDA x : x > p95) <= N - 1 - index
            /\ reported[1].min_latency <= p95
            /\ p95 <= reported[1].max_latency
            /\ \A i \in 1..N : reported[1].min_latency <= latencies[i]
                                /\ latencies[i] <= reported[1].max_latency

\* C8 witness: a report over more than 20 latencies whose p95 is neither the
\* smallest nor the largest of them.
C8_Witness ==
    /\ reported # None
    /\ Len(latencies) > 20
    /\ reported[1].min_latency < reported[1].p95_latency
    /\ reported[1].p95_latency < reported[1].max_latency

----------------------------------------------------------------------------
\* SpecSetup: the start of the recorder with a store that may fail to open, then a
\* short stream and the shutdown

SetupStore == \E fault \in SetupFaults \cup {"none"} : setup_database(fault)

NextSetup ==
    \/ SetupStore
    \/ Connect
    \/ on_connect
    \/ ClockTick
    \/ ClockDeliver
    \/ handle_exit
    \/ MainFinally

SpecSetup == Init /\ [][NextSetup]_vars

\* C11: once the process has ended after a failed store setup (the directory, the
\* open or the schema), its exit status is not 0.
C11_SetupFailureExitsNonZero ==
    (setup \in SetupFaults /\ exit_status # None) => exit_status[1] # 0

\* C24: on shutdown by a signal the finally block of main() does not find a
\* connection that handle_exit has closed already: the connection is committed and
\* closed once and the process ends with status 0.
C24_ShutdownClosesOnce ==
    [][(pc = "unwinding" /\ pc' = "exited" /\ setup = "ok") =>
          /\ db_connection # "closed"
          /\ db_connection' = "closed"
          /\ exit_status' = Some(0)]_vars

----------------------------------------------------------------------------
\* SpecConnect: the start of the recorder with a broker that may refuse every
\* connection attempt, and the shutdown by a signal at any point

NextConnect ==
    \/ SetupDatabase
    \/ Connect
    \/ ConnectFails
    \/ ReturnFailure
    \/ on_connect
    \/ handle_exit
    \/ MainFinally

SpecConnect == Init /\ [][NextConnect]_vars

\* C30: main() calls client.connect at most max_retries times; after a call that
\* fails it waits RetryDelay seconds and stays in the loop; after a call that
\* succeeds it listens and calls client.connect no more; when the loop ends
\* without a connection, after max_retries failures, the database is closed and
\* the process ends with status 1.
C30_ConnectLoopTerminates ==
    /\ [](attempts <= max_retries)
    /\ [][(attempts' # attempts) =>
              (/\ pc = "connecting"
               /\ attempts' = attempts + 1
               /\ IF retry_count' = retry_count
                  THEN pc' = "loop" /\ now' = now
                  ELSE /\ retry_count' = retry_count + 1
                       /\ now' = now + RetryDelay
                       /\ pc' = "connecting")]_vars
    /\ [][(pc = "connecting" /\ pc' = "exited") =>
              (/\ retry_count = max_retries
               /\ attempts = max_retries
               /\ db_connection = "open"
               /\ db_connection' = "closed"
               /\ exit_status' = Some(1))]_vars

\* C30 witness: every attempt has failed and the process has ended: max_retries
\* attempts, max_retries waits, the database closed, status 1.
C30_Witness ==
    /\ pc = "exited"
    /\ link = "down"
    /\ first_connect = None
    /\ attempts = max_retries
    /\ retry_count = max_retries
    /\ now = max_retries * RetryDelay
    /\ Len(commits) = 1
    /\ db_connection = "closed"
    /\ exit_status = Some(1)

----------------------------------------------------------------------------
\* The reconstruction of a scan (src/visualizer/visualizer.py)
\*
\* A numpy array of points or colors is the sequence of its rows.  A dict is a
\* sequence of <<key, value>> pairs in insertion order.  Coordinates are in
\* thousandths of a centimetre: a distance in whole centimetres times the cosine
\* or sine in thousandths.

\* Labels in the order the sender writes them (sender.py:32-35)
SenderLabels ==
    <<"angle_0", "angle_10", "angle_20", "angle_30", "angle_40",
      "angle_50", "angle_60", "angle_70", "angle_80", "angle_90",
      "angle_100", "angle_110", "angle_120", "angle_130", "angle_140",
      "angle_150", "angle_160", "angle_170", "angle_180", "angle_190",
      "angle_200", "angle_210", "angle_220", "angle_230", "angle_240",
      "angle_250", "angle_260", "angle_270", "angle_280", "angle_290",
      "angle_300", "angle_310", "angle_320", "angle_330", "angle_340",
      "angle_350">>

\* float(angle_key.split('_')[1]): the number of the label, None when split has no
\* second part (IndexError) or float() rejects it (ValueError)
Degrees ==
    [a \in {AngleOrder[i] : i \in 1..Len(AngleOrder)} |->
        CASE a = "angle" -> None
          [] a = "angle_x" -> None
          [] a = "angle_0" -> Some(0)
          [] a = "angle_10" -> Some(10)
          [] a = "angle_20" -> Some(20)
          [] a = "angle_30" -> Some(30)
          [] a = "angle_40" -> Some(40)
          [] a = "angle_50" -> Some(50)
          [] a = "angle_60" -> Some(60)
          [] a = "angle_70" -> Some(70)
          [] a = "angle_80" -> Some(80)
          [] a = "angle_90" -> Some(90)
          [] a = "angle_100" -> Some(100)
          [] a = "angle_110" -> Some(110)
          [] a = "angle_120" -> Some(120)
          [] a = "angle_130" -> Some(130)
          [] a = "angle_140" -> Some(140)
          [] a = "angle_150" -> Some(150)
          [] a = "angle_160" -> Some(160)
          [] a = "angle_170" -> Some(170)
          [] a = "angle_180" -> Some(180)
          [] a = "angle_190" -> Some(190)
          [] a = "angle_200" -> Some(200)
          [] a = "angle_210" -> Some(210)
          [] a = "angle_220" -> Some(220)
          [] a = "angle_230" -> Some(230)
          [] a = "angle_240" -> Some(240)
          [] a = "angle_250" -> Some(250)
          [] a = "angle_260" -> Some(260)
          [] a = "angle_270" -> Some(270)
          [] a = "angle_280" -> Some(280)
          [] a = "angle_290" -> Some(290)
          [] a = "angle_300" -> Some(300)
          [] a = "angle_310" -> Some(310)
          [] a = "angle_320" -> Some(320)
          [] a = "angle_330" -> Some(330)
          [] a = "angle_340" -> Some(340)
          [] a = "angle_350" -> Some(350)]

\* 1000 * cos of 0, 10, ..., 90 degrees, rounded
CosTable == <<1000, 985, 940, 866, 766, 643, 500, 342, 174, 0>>

Cos1000(deg) ==
    LET d == deg % 360
    IN  CASE d <= 90  -> CosTable[d \div 10 + 1]
          [] d <= 180 -> 0 - CosTable[(180 - d) \div 10 + 1]
          [] d <= 270 -> 0 - CosTable[(d - 180) \div 10 + 1]
          [] OTHER    -> CosTable[(360 - d) \div 10 + 1]

Sin1000(deg) == Cos1000(deg + 270)

\* colormap(norm_distance)[:3]: the color is a function of the normalized distance,
\* kept here as the fraction <<numerator, denominator>>
Color(distance, max_distance) ==
    IF max_distance > 0 THEN <<distance, max_distance>> ELSE <<0, 1>>

\* The positions of a sequence, ascending, at which P holds
Positions(n, P(_)) == SelectSeq([i \in 1..n |-> i], P)

\* The try block of the loop: does the label give an angle
Parses(angle_key) == Degrees[angle_key] # None

\* convert_readings_to_points(scan_data), scan_data None or a dict; `readings` is
\* the dict of the scan in insertion order
convert_readings_to_points(scan) ==
    IF scan = None \/ "readings" \notin DOMAIN scan[1]
    THEN [raised |-> "", points |-> None, colors |-> None]
    ELSE LET items == scan[1].readings
             n     == Len(items)
         IN  IF n = 0
             THEN \* max() of an empty sequence
                  [raised |-> "ValueError", points |-> None, colors |-> None]
             ELSE LET max_distance == SeqMax([i \in 1..n |-> items[i][2]])
                      kept == Positions(n, LAMBDA i : Parses(items[i][1]))
                      deg(k) == IF Degrees[items[kept[k]][1]] = None THEN 0
                                ELSE Degrees[items[kept[k]][1]][1]
                      dist(k) == items[kept[k]][2]
                  IN  [raised |-> "",
                       points |-> Some([k \in 1..Len(kept) |->
                                   <<dist(k) * Cos1000(deg(k)),
                                     dist(k) * Sin1000(deg(k)), 0>>]),
                       colors |-> Some([k \in 1..Len(kept) |->
                                   Color(dist(k), max_distance)])]

----------------------------------------------------------------------------
\* The stages of the pipeline (src/visualizer/advanced_visualizer.py)
\*
\* An index array is a record of its dtype and its items (indices from 0):
\* np.array of an empty list is a float64 array, which cannot index another array.
\* What Open3D computes is an input of the stage: `lib` says whether the call
\* raised and, if not, what it returned.

nb_neighbors == 20
ransac_n == 3
min_points == 10
MinDimensionPoints == 3

NpArray(items) ==
    [dtype |-> IF items = <<>> THEN "float64" ELSE "int64", items |-> items]

Arange(n) == [dtype |-> "int64", items |-> [i \in 1..n |-> i - 1]]

\* arr[indices] raises IndexError for a float index array or an index out of range
IndexRaises(arr, indices) ==
    \/ indices.dtype # "int64"
    \/ \E i \in 1..Len(indices.items) : indices.items[i] \notin 0..(Len(arr) - 1)

\* arr[indices], and pcd.select_by_index(indices)
Take(arr, indices) == [i \in 1..Len(indices.items) |-> arr[indices.items[i] + 1]]

\* arr[mask] with mask True except at the indices, and select_by_index(invert=True)
TakeOthers(arr, indices) ==
    LET kept == Positions(Len(arr), LAMBDA i :
                    \A j \in 1..Len(indices.items) : indices.items[j] # i - 1)
    IN  [k \in 1..Len(kept) |-> arr[kept[k]]]

\* Mutant of TooFewToFilter: the guard one point short.
TooFewToFilterStrict(points, k) == Len(points) < k

\* filter_outliers: `if len(points) < nb_neighbors + 1`
TooFewToFilter(points, k) == Len(points) < k + 1

\* filter_outliers(points, nb_neighbors): (filtered_points, indices)
filter_outliers(points, k, lib) ==
    IF TooFewToFilter(points, k) \/ lib.raises
    THEN [points |-> points, indices |-> Arange(Len(points))]
    ELSE [points |-> Take(points, NpArray(lib.indices)),
          indices |-> NpArray(lib.indices)]

\* Mutant of segment_ground_plane: the outlier cloud returned as the ground.
segment_ground_plane_inverted(points, n, plane, lib) ==
    IF Len(points) < n \/ lib.raises
    THEN [ground |-> points, objects |-> <<>>, indices |-> NpArray(<<>>),
          ground_plane |-> plane]
    ELSE [ground |-> TakeOthers(points, NpArray(lib.inliers)),
          objects |-> Take(points, NpArray(lib.inliers)),
          indices |-> NpArray(lib.inliers),
          ground_plane |-> Some(lib.plane_model)]

\* segment_ground_plane(points, ransac_n): (inlier_points, outlier_points, inliers)
\* and the value of self.ground_plane after the call
segment_ground_plane(points, n, plane, lib) ==
    IF Len(points) < n \/ lib.raises
    THEN [ground |-> points, objects |-> <<>>, indices |-> NpArray(<<>>),
          ground_plane |-> plane]
    ELSE [ground |-> Take(points, NpArray(lib.inliers)),
          objects |-> TakeOthers(points, NpArray(lib.inliers)),
          indices |-> NpArray(lib.inliers),
          ground_plane |-> Some(lib.plane_model)]

\* np.unique(labels) restricted to the labels >= 0: ascending, without repeats
UniqueLabels(labels) ==
    LET U == {labels[i] : i \in 1..Len(labels)} \cap Nat
    IN  [k \in 1..Cardinality(U) |->
            CHOOSE l \in U : Cardinality({m \in U : m < l}) = k - 1]

\* cluster_points(points, min_points): (clusters, labels)
cluster_points(points, m, lib) ==
    IF Len(points) < m \/ lib.raises
    THEN [clusters |-> <<>>, labels |-> <<>>]
    ELSE LET unique_labels == UniqueLabels(lib.labels)
             member(k) == Positions(Len(points),
                              LAMBDA i : lib.labels[i] = unique_labels[k])
         IN  [clusters |-> [k \in 1..Len(unique_labels) |->
                               [j \in 1..Len(member(k)) |-> points[member(k)[j]]]],
              labels |-> lib.labels]

\* np.min / np.max of one column
ColumnMin(points, axis) == SeqMin([i \in 1..Len(points) |-> points[i][axis]])
ColumnMax(points, axis) == SeqMax([i \in 1..Len(points) |-> points[i][axis]])

\* Mutant of Extent: min minus max.
ExtentReversed(lo, hi) == lo - hi

\* dimensions = max_coords - min_coords
Extent(lo, hi) == hi - lo

\* center = (min_coords + max_coords) / 2, as the fraction <<numerator, 2>>
Midpoint(lo, hi) == <<lo + hi, 2>>

\* calculate_object_dimensions(points): None or the dict of the dimensions
calculate_object_dimensions(points) ==
    IF Len(points) < MinDimensionPoints
    THEN [raised |-> "", value |-> None]
    ELSE LET lo(axis) == ColumnMin(points, axis)
             hi(axis) == ColumnMax(points, axis)
         IN  [raised |-> "",
              value |-> Some([center |-> [axis \in 1..3 |-> Midpoint(lo(axis), hi(axis))],
                              width  |-> Extent(lo(1), hi(1)),
                              depth  |-> Extent(lo(2), hi(2)),
                              height |-> Extent(lo(3), hi(3)),
                              min_coords |-> [axis \in 1..3 |-> lo(axis)],
                              max_coords |-> [axis \in 1..3 |-> hi(axis)]])]

----------------------------------------------------------------------------
\* SpecStages: each stage called on its own, on point arrays and scans of every
\* size up to MaxPoints, with every outcome of the Open3D call

MaxPoints == 22

receiverVars == <<pc, link, now, db_connection, message_counts, latencies, start_time,
                  last_report_time, sensor_data, sensor_readings, performance_stats,
                  committed, commits, delivered, reported, scan_data, first_connect,
                  exit_status, setup, connectVars>>

\* No recorder is running and the store is empty.
ReceiverIdle ==
    /\ pc = "start"
    /\ retry_count = 0
    /\ attempts = 0
    /\ link = "down"
    /\ now = 0
    /\ db_connection = "none"
    /\ message_counts = 0
    /\ latencies = <<>>
    /\ start_time = None
    /\ last_report_time = 0
    /\ sensor_data = <<>>
    /\ sensor_readings = <<>>
    /\ performance_stats = <<>>
    /\ committed = [data |-> 0, readings |-> 0, stats |-> 0]
    /\ commits = <<>>
    /\ delivered = None
    /\ reported = None
    /\ scan_data = None
    /\ first_connect = None
    /\ exit_status = None
    /\ setup = "none"

\* The point set of the spec's example for the dimension calculator
ExamplePoints == << <<0, 0, 0>>, <<2, 0, 0>>, <<0, 3, 0>> >>

PointPattern(n, a) == [i \in 1..n |-> <<(i * a) % 7, (i * i + a) % 5, (i + a) % 3>>]

\* Distances in whole centimetres, some of them 0
DistancePattern(i) == ((i * 7) % 5) * 10

\* The readings of a scan of n readings: the labels of the sender in its order,
\* with one label that has no number in the first or in the middle position
ScanShapes == {"sender", "no_number_first", "no_number_middle"}

ScanReadings(n, shape) ==
    [i \in 1..n |->
        << CASE shape = "no_number_first" /\ i = 1 -> "angle"
             [] shape = "no_number_middle" /\ i = (n + 1) \div 2 -> "angle_x"
             [] OTHER -> SenderLabels[i],
           DistancePattern(i) >>]

ScanOf(timestamp, items) ==
    Some([timestamp |-> timestamp, device_id |-> "lidar-1", readings |-> items])

\* What remove_statistical_outlier does with n points: it raises, keeps all or
\* drops the last two (it never drops every point)
OutlierHows == {"raises", "keeps_all", "drops_last_two"}

OutlierOutcome(how, n) ==
    [raises  |-> how = "raises",
     indices |-> CASE how = "raises"      -> <<>>
                   [] how = "keeps_all" -> [i \in 1..n |-> i - 1]
                   [] OTHER             -> [i \in 1..(n - 2) |-> i - 1]]

OutlierOutcomes(n) == {OutlierOutcome(how, n) : how \in OutlierHows}

HorizontalPlane == <<0, 0, 1, 0>>

\* What segment_plane does with n points: it raises, or returns a plane with all the
\* points as inliers, the first three, or every second one
PlaneHows == {"raises", "all", "first_three", "every_second"}

PlaneOutcome(how, n) ==
    [raises      |-> how = "raises",
     plane_model |-> HorizontalPlane,
     inliers     |-> CASE how = "raises" -> <<>>
                       [] how = "all"    -> [i \in 1..n |-> i - 1]
                       [] how = "first_three" ->
                              [i \in 1..(IF n < 3 THEN n ELSE 3) |-> i - 1]
                       [] OTHER -> [i \in 1..((n + 1) \div 2) |-> 2 * (i - 1)]]

PlaneOutcomes(n) == {PlaneOutcome(how, n) : how \in PlaneHows}

\* What cluster_dbscan does with n points: it raises, or labels all of them noise,
\* all of them one cluster, two interleaved clusters numbered from the second
\* point with the last point noise, or one cluster and a second cluster of the
\* last point alone (a core point visited last, whose neighbours are all border
\* points the first cluster has taken)
DbscanHows == {"raises", "noise", "one", "interleaved", "lone_core"}

DbscanOutcome(how, n) ==
    [raises |-> how = "raises",
     labels |-> CASE how = "raises" -> <<>>
                  [] how = "noise"  -> [i \in 1..n |-> -1]
                  [] how = "one"    -> [i \in 1..n |-> 0]
                  [] how = "lone_core" -> [i \in 1..n |-> IF i = n THEN 1 ELSE 0]
                  [] OTHER -> [i \in 1..n |-> IF i = n THEN -1 ELSE i % 2]]

DbscanOutcomes(n) == {DbscanOutcome(how, n) : how \in DbscanHows}

InitStages ==
    /\ ReceiverIdle
    /\ latest_timestamp = None
    /\ ground_plane = None
    /\ returned = None
    /\ ServerIdle
    /\ \E n \in 0..MaxPoints :
           /\ input_points \in {PointPattern(n, 1), PointPattern(n, 3), ExamplePoints}
           /\ input_scan \in {None, Some([timestamp |-> 1])}
                               \cup {ScanOf(1, ScanReadings(n, shape)) : shape \in ScanShapes}

ConvertReadingsToPoints ==
    /\ returned' = Some([op |-> "convert_readings_to_points", scan |-> input_scan,
                         result |-> convert_readings_to_points(input_scan)])
    /\ UNCHANGED <<receiverVars, serverVars, input_points, input_scan, latest_timestamp,
                   ground_plane>>

FilterOutliers ==
    /\ \E lib \in OutlierOutcomes(Len(input_points)) :
           returned' = Some([op |-> "filter_outliers", points |-> input_points,
                             lib |-> lib,
                             result |-> filter_outliers(input_points, nb_neighbors, lib)])
    /\ UNCHANGED <<receiverVars, serverVars, input_points, input_scan, latest_timestamp,
                   ground_plane>>

SegmentGroundPlane ==
    /\ \E lib \in PlaneOutcomes(Len(input_points)) :
           LET r == segment_ground_plane(input_points, ransac_n, ground_plane, lib)
           IN  /\ returned' = Some([op |-> "segment_ground_plane",
                                    points |-> input_points, lib |-> lib, result |-> r])
               /\ ground_plane' = r.ground_plane
    /\ UNCHANGED <<receiverVars, serverVars, input_points, input_scan, latest_timestamp>>

ClusterPoints ==
    /\ \E lib \in DbscanOutcomes(Len(input_points)) :
           returned' = Some([op |-> "cluster_points", points |-> input_points,
                             lib |-> lib,
                             result |-> cluster_points(input_points, min_points, lib)])
    /\ UNCHANGED <<receiverVars, serverVars, input_points, input_scan, latest_timestamp,
                   ground_plane>>

CalculateObjectDimensions ==
    /\ returned' = Some([op |-> "calculate_object_dimensions", points |-> input_points,
                         result |-> calculate_object_dimensions(input_points)])
    /\ UNCHANGED <<receiverVars, serverVars, input_points, input_scan, latest_timestamp,
                   ground_plane>>

NextStages ==
    \/ ConvertReadingsToPoints
    \/ FilterOutliers
    \/ SegmentGroundPlane
    \/ ClusterPoints
    \/ CalculateObjectDimensions

SpecStages == InitStages /\ [][NextStages]_vars

Called(op) == returned # None /\ returned[1].op = op

\* C12: the dimension calculator called with fewer than 3 points raises
\* InsufficientDataError to its caller and returns nothing.
C12_TooFewPointsRaise ==
    (Called("calculate_object_dimensions") /\ Len(returned[1].points) < 3) =>
        returned[1].result.raised = "InsufficientDataError"

\* C13: ground segmentation called with fewer points than the sample size, or
\* whose fit raised, returns an empty ground set, the input as the non-ground set
\* and an empty inlier index array.
C13_NoFitAllNonGround ==
    (/\ Called("segment_ground_plane")
     /\ Len(returned[1].points) < ransac_n \/ returned[1].lib.raises) =>
        /\ returned[1].result.ground = <<>>
        /\ returned[1].result.objects = returned[1].points
        /\ returned[1].result.indices.items = <<>>

\* The readings handed to the last convert_readings_to_points, if it was handed any
HasReadings ==
    /\ Called("convert_readings_to_points")
    /\ returned[1].scan # None
    /\ "readings" \in DOMAIN returned[1].scan[1]

\* C14: reconstructing a scan whose readings are empty raises nothing and returns
\* an empty points array and an empty colors array.
C14_EmptyReadingsEmptyArrays ==
    (HasReadings /\ returned[1].scan[1].readings = <<>>) =>
        /\ returned[1].result.raised = ""
        /\ returned[1].result.points = Some(<<>>)
        /\ returned[1].result.colors = Some(<<>>)

\* C15: for any readings, reconstruction raises nothing and returns as many points
\* as colors, one per reading whose label has a number, in the order of the
\* readings: the k-th point lies at the distance and angle of the k-th such reading,
\* whatever the readings whose label has no number.
C15_OnePointPerParsedReading ==
    HasReadings =>
        LET items  == returned[1].scan[1].readings
            valid  == Positions(Len(items), LAMBDA i : Degrees[items[i][1]] # None)
            result == returned[1].result
        IN  /\ result.raised = ""
            /\ result.points # None /\ result.colors # None
            /\ Len(result.points[1]) = Len(valid)
            /\ Len(result.colors[1]) = Len(valid)
            /\ \A k \in 1..Len(valid) :
                   LET distance == items[valid[k]][2]
                       deg      == Degrees[items[valid[k]][1]][1]
                   IN  result.points[1][k] =
                           <<distance * Cos1000(deg), distance * Sin1000(deg), 0>>

\* C18: the clusterer returns one label per input point; cluster i holds exactly
\* the points carrying the i-th non-negative label, in input order, so clusters
\* are disjoint and no point labelled -1 is in one; with fewer than min_points
\* points there is no cluster.
C18_ClustersFollowLabels ==
    Called("cluster_points") =>
        LET points == returned[1].points
            result == returned[1].result
            ids    == UniqueLabels(result.labels)
        IN  /\ Len(result.labels) = Len(points)
            /\ Len(result.clusters) = Len(ids)
            /\ \A i \in 1..Len(ids) :
                   LET at == Positions(Len(points), LAMBDA j : result.labels[j] = ids[i])
                   IN  result.clusters[i] = [k \in 1..Len(at) |-> points[at[k]]]
            /\ Len(points) < min_points => result.clusters = <<>>

\* C19: with at most nb_neighbors points the outlier filter returns its input and
\* the indices 0..len(points)-1, whatever Open3D would remove, and an array
\* parallel to the points indexed by them comes back unchanged.
C19_FilterIdentityUpToK ==
    (Called("filter_outliers") /\ Len(returned[1].points) <= nb_neighbors) =>
        LET points  == returned[1].points
            result  == returned[1].result
            colors  == [i \in 1..Len(points) |-> Color(i, Len(points))]
        IN  /\ result.points = points
            /\ result.indices.items = [i \in 1..Len(points) |-> i - 1]
            /\ ~IndexRaises(colors, result.indices)
            /\ Take(colors, result.indices) = colors

\* C19 witness: the filter called with exactly nb_neighbors points, for which
\* Open3D would have removed some.
C19_Witness ==
    /\ Called("filter_outliers")
    /\ Len(returned[1].points) = nb_neighbors
    /\ ~returned[1].lib.raises
    /\ Len(returned[1].lib.indices) < nb_neighbors
    /\ returned[1].result.points = returned[1].points

\* C20: with at least 3 points the calculator returns, on each axis, the largest
\* difference of two coordinates as width, depth and height (never negative) and
\* the midpoint of the smallest and the largest coordinate as center; for the
\* points (0,0,0), (2,0,0), (0,3,0) that is 2, 3, 0 and center (1, 1.5, 0).
C20_DimensionsAreExtents ==
    (Called("calculate_object_dimensions") /\ Len(returned[1].points) >= 3) =>
        LET points == returned[1].points
            value  == returned[1].result.value
            size   == <<value[1].width, value[1].depth, value[1].height>>
            I      == 1..Len(points)
        IN  /\ returned[1].result.raised = ""
            /\ value # None
            /\ \A axis \in 1..3 :
                   /\ size[axis] >= 0
                   /\ \E i, j \in I :
                          /\ \A k \in I : points[i][axis] <= points[k][axis]
                                          /\ points[k][axis] <= points[j][axis]
                          /\ size[axis] = points[j][axis] - points[i][axis]
                          /\ value[1].center[axis] =
                                 <<points[i][axis] + points[j][axis], 2>>
            /\ points = ExamplePoints =>
                   /\ size = <<2, 3, 0>>
                   /\ value[1].center = << <<2, 2>>, <<3, 2>>, <<0, 2>> >>

\* C20 witness: the dimensions of the example points have been computed.
C20_Witness ==
    /\ Called("calculate_object_dimensions")
    /\ returned[1].points = ExamplePoints
    /\ returned[1].result.value # None
    /\ returned[1].result.value[1].width = 2

----------------------------------------------------------------------------
\* Plane fitting: pcd.segment_plane(distance_threshold, ransac_n, num_iterations)
\* (advanced_visualizer.py:58-62).  The loop is Open3D's; it is modelled as the
\* design describes it (section 4.4): every sampled triple of points gives the
\* plane through it, the inliers of a plane are the points within the threshold
\* of it, the plane with the most inliers is kept, the first one on a tie.  The
\* random generator is the sequence `samples` of the triples it draws (positions
\* from 1).  Whether a point at exactly the threshold is an inlier is the
\* library's choice (`closed`).  Thresholds are in the unit of the coordinates.

Abs(x) == IF x < 0 THEN 0 - x ELSE x

RECURSIVE Gcd(_, _)
Gcd(a, b) == IF b = 0 THEN a ELSE Gcd(b, a % b)

Minus(p, q) == <<p[1] - q[1], p[2] - q[2], p[3] - q[3]>>

Dot(u, v) == u[1] * v[1] + u[2] * v[2] + u[3] * v[3]

Cross(u, v) == <<u[2] * v[3] - u[3] * v[2],
                 u[3] * v[1] - u[1] * v[3],
                 u[1] * v[2] - u[2] * v[1]>>

\* The direction of a vector in lowest terms (a plane's coefficients are fixed up
\* to a factor; Open3D scales the normal to length 1)
Direction(v) ==
    LET g == Gcd(Gcd(Abs(v[1]), Abs(v[2])), Abs(v[3]))
    IN  IF g = 0 THEN v ELSE <<v[1] \div g, v[2] \div g, v[3] \div g>>

Normal(p1, p2, p3) == Direction(Cross(Direction(Minus(p2, p1)), Direction(Minus(p3, p1))))

Collinear(p1, p2, p3) == Normal(p1, p2, p3) = <<0, 0, 0>>

\* The plane ax + by + cz + d = 0 through three points
PlaneThrough(p1, p2, p3) ==
    LET nrm == Normal(p1, p2, p3)
    IN  <<nrm[1], nrm[2], nrm[3], 0 - Dot(nrm, p1)>>

\* |ax + by + cz + d| / |(a, b, c)| against the threshold, both sides squared
Within(plane, q, threshold, closed) ==
    LET e  == Dot(plane, q) + plane[4]
        nn == plane[1] * plane[1] + plane[2] * plane[2] + plane[3] * plane[3]
    IN  /\ threshold >= 0
        /\ IF closed THEN e * e <= threshold * threshold * nn
           ELSE e * e < threshold * threshold * nn

\* The inliers of a plane, as indices from 0, ascending
Inliers(points, plane, threshold, closed) ==
    LET at == Positions(Len(points),
                        LAMBDA i : Within(plane, points[i], threshold, closed))
    IN  [k \in 1..Len(at) |-> at[k] - 1]

NoPlane == <<0, 0, 0, 0>>

\* segment_plane: (plane_model, inliers), or the call raises
segment_plane(points, distance_threshold, rng) ==
    LET samples  == rng.samples
        plane(k) == PlaneThrough(points[samples[k][1]], points[samples[k][2]],
                                 points[samples[k][3]])
        fit      == Positions(Len(samples), LAMBDA k :
                        ~Collinear(points[samples[k][1]], points[samples[k][2]],
                                   points[samples[k][3]]))
        count    == [k \in 1..Len(samples) |->
                        Len(Inliers(points, plane(k), distance_threshold, rng.closed))]
        better(j, k) == count[j] > count[k] \/ (count[j] = count[k] /\ j < k)
    IN  IF rng.raises
        THEN [raises |-> TRUE, plane_model |-> NoPlane, inliers |-> <<>>]
        ELSE IF fit = <<>>
        THEN [raises |-> FALSE, plane_model |-> NoPlane, inliers |-> <<>>]
        ELSE LET best == CHOOSE k \in {fit[i] : i \in 1..Len(fit)} :
                             \A i \in 1..Len(fit) : ~better(fit[i], k)
             IN  [raises |-> FALSE, plane_model |-> plane(best),
                  inliers |-> Inliers(points, plane(best), distance_threshold,
                                      rng.closed)]

----------------------------------------------------------------------------
\* SpecSegment: segment_ground_plane called up to twice on the same instance with
\* the same points and the same random samples, the second time with a threshold
\* that is not smaller

MaxFitPoints == 5
MaxSamples == 2

Thresholds == {0, 1, 2, 5}

\* The points of a scan of n readings of the sender (all in the plane z = 0)
ScanPoints(n) ==
    IF n = 0 THEN <<>>
    ELSE convert_readings_to_points(ScanOf(1, ScanReadings(n, "sender"))).points[1]

\* The triples of distinct positions a random generator can draw from n points
Triples(n) ==
    {t \in (1..n) \X (1..n) \X (1..n) : t[1] < t[2] /\ t[2] < t[3]}

\* The sample sequences tried: up to MaxSamples different triples, in ascending
\* order of their positions
SampleSeqs(n) ==
    {s \in UNION {[1..len -> Triples(n)] : len \in 0..MaxSamples} :
        \A k \in 1..(Len(s) - 1) :
            s[k][1] * 100 + s[k][2] * 10 + s[k][3]
                < s[k + 1][1] * 100 + s[k + 1][2] * 10 + s[k + 1][3]}

InitSegment ==
    /\ ReceiverIdle
    /\ ThreadsIdle
    /\ input_scan = None
    /\ latest_timestamp = None
    /\ ground_plane = None
    /\ returned = None
    /\ \E n \in 0..MaxFitPoints :
           /\ input_points \in {PointPattern(n, 1), ScanPoints(n)}
           /\ \/ library = Some([samples |-> <<>>, closed |-> TRUE, raises |-> TRUE])
              \/ \E samples \in SampleSeqs(n), closed \in BOOLEAN :
                     library = Some([samples |-> samples, closed |-> closed,
                                     raises |-> FALSE])

\* visualizer.segment_ground_plane(points, distance_threshold)
SegmentGroundPlaneAt(distance_threshold) ==
    /\ IF returned = None THEN TRUE
       ELSE /\ returned[1].before = None
            /\ returned[1].distance_threshold <= distance_threshold
    /\ \E r \in {segment_ground_plane(input_points, ransac_n, ground_plane,
                     segment_plane(input_points, distance_threshold, library[1]))} :
           /\ returned' = Some([op |-> "segment_ground_plane",
                                points |-> input_points,
                                distance_threshold |-> distance_threshold,
                                result |-> r,
                                before |-> returned])
           /\ ground_plane' = r.ground_plane
    /\ UNCHANGED <<receiverVars, serverVars, input_points, input_scan, latest_timestamp>>

NextSegment == \E distance_threshold \in Thresholds : SegmentGroundPlaneAt(distance_threshold)

SpecSegment == InitSegment /\ [][NextSegment]_vars

\* C21: of two calls with the same points and the same random samples, the one
\* with the larger distance threshold returns at least as many ground points.
C21_GroundCountMonotone ==
    (/\ Called("segment_ground_plane")
     /\ returned[1].before # None
     /\ returned[1].before[1].distance_threshold <= returned[1].distance_threshold) =>
        Len(returned[1].before[1].result.ground) <= Len(returned[1].result.ground)

\* C21 witness: five points in space; the plane kept at threshold 0 holds its three
\* sampled points only, a larger threshold takes in a fourth point and not the fifth.
C21_Witness ==
    /\ Called("segment_ground_plane")
    /\ returned[1].before # None
    /\ Len(returned[1].points) = 5
    /\ returned[1].before[1].distance_threshold = 0
    /\ Len(returned[1].before[1].result.ground) = 3
    /\ Len(returned[1].result.ground) = 4
    /\ Len(returned[1].result.objects) = 1

\* Some three of the points are not on one line.
NotAllCollinear(points) ==
    \E i \in 1..Len(points), j \in 1..Len(points), k \in 1..Len(points) :
        ~Collinear(points[i], points[j], points[k])

\* C26: for at least four points with z = 0 that are not all on one line, a
\* segmentation that samples at least one triple not on one line returns every
\* point as ground and no point as non-ground, whatever the threshold >= 0.
C26_PlanarScanAllGround ==
    (/\ Called("segment_ground_plane")
     /\ Len(returned[1].points) >= 4
     /\ \A i \in 1..Len(returned[1].points) : returned[1].points[i][3] = 0
     /\ NotAllCollinear(returned[1].points)
     /\ ~library[1].raises
     /\ \E k \in 1..Len(library[1].samples) :
            ~Collinear(returned[1].points[library[1].samples[k][1]],
                       returned[1].points[library[1].samples[k][2]],
                       returned[1].points[library[1].samples[k][3]])
     /\ returned[1].distance_threshold >= 0) =>
        /\ returned[1].result.ground = returned[1].points
        /\ returned[1].result.objects = <<>>

\* The same for the thresholds > 0 only (this holds under SpecSegment).
PlanarScanAllGroundAbove0 ==
    (Called("segment_ground_plane") /\ returned[1].distance_threshold = 0)
        \/ C26_PlanarScanAllGround

----------------------------------------------------------------------------
\* The orchestrator (advanced_visualizer.py:196-300)

\* One trace of the figure: its name and the number of its points
Trace(name, points) == [name |-> name, size |-> Len(points)]

\* create_enhanced_plotly_figure(...): the traces of the figure, in order
create_enhanced_plotly_figure(original_points, ground_points, object_points, clusters) ==
    (IF Len(ground_points) > 0 \/ Len(clusters) > 0
     THEN <<Trace("Original Points", original_points)>> ELSE <<>>)
    \o (IF Len(ground_points) > 0 THEN <<Trace("Ground", ground_points)>> ELSE <<>>)
    \o (IF Len(object_points) > 0 /\ Len(clusters) = 0
        THEN <<Trace("Objects", object_points)>> ELSE <<>>)
    \o [k \in 1..(2 * Len(clusters)) |->
           IF k % 2 = 1 THEN Trace("Cluster", clusters[(k + 1) \div 2])
           ELSE [name |-> "Center", size |-> 1]]
    \o <<[name |-> "X-axis", size |-> 2], [name |-> "Y-axis", size |-> 2],
         [name |-> "Z-axis", size |-> 2]>>

\* (None, {})
NoResult == [raised |-> "", fig |-> None, results |-> None,
             ran |-> [filter |-> FALSE, segment |-> FALSE, cluster |-> FALSE]]

\* `if filter_outliers and len(points) > 20`
FilterGate(enabled, points) == enabled /\ Len(points) > 20

\* `if segment_ground and len(points) > 3`
SegmentGate(enabled, points) == enabled /\ Len(points) > 3

\* `if cluster_objects and len(object_points) > 10`
ClusterGate(enabled, object_points) == enabled /\ Len(object_points) > 10

\* Mutant of HasGroundIndices: the colors are indexed whatever the inliers.
AnyGroundIndices(ground_indices) == TRUE

\* `if len(ground_indices) > 0`
HasGroundIndices(ground_indices) == Len(ground_indices.items) > 0

\* The entries of cluster_dimensions: one per cluster whose dimensions are not None
ClusterDimensions(clusters) ==
    LET dims(i) == calculate_object_dimensions(clusters[i]).value
        kept    == Positions(Len(clusters), LAMBDA i : dims(i) # None)
    IN  [k \in 1..Len(kept) |->
            [cluster_id  |-> kept[k] - 1,
             center      |-> dims(kept[k])[1].center,
             width       |-> dims(kept[k])[1].width,
             depth       |-> dims(kept[k])[1].depth,
             height      |-> dims(kept[k])[1].height,
             point_count |-> Len(clusters[kept[k]])]]

\* Body(value): the value is computed once and the body sees the result
Bind(value, Body(_)) == CHOOSE r \in {Body(x) : x \in {value}} : TRUE

\* Step 1 (lines 229-239): the points and colors handed on, whether the filter
\* ran, whether colors[indices] raised
FilterStep(original_points, original_colors, toggles, how) ==
    LET ran == FilterGate(toggles.filter_outliers, original_points)
        f   == filter_outliers(original_points, nb_neighbors,
                               OutlierOutcome(how.outliers, Len(original_points)))
        raised == ran /\ IndexRaises(original_colors, f.indices)
    IN  [ran    |-> ran,
         raised |-> raised,
         points |-> IF ran THEN f.points ELSE original_points,
         colors |-> IF ran /\ ~raised THEN Take(original_colors, f.indices)
                    ELSE original_colors]

\* Step 2 (lines 241-259): ground and object points, whether the segmentation
\* ran, whether colors[ground_indices] raised, self.ground_plane afterwards
SegmentStep(points, colors, toggles, how, plane) ==
    LET ran == SegmentGate(toggles.segment_ground, points)
        g   == segment_ground_plane(points, ransac_n, plane,
                                    PlaneOutcome(how.plane, Len(points)))
    IN  [ran    |-> ran,
         raised |-> ran /\ HasGroundIndices(g.indices) /\ IndexRaises(colors, g.indices),
         ground_points |-> IF ran THEN g.ground ELSE <<>>,
         object_points |-> IF ran THEN g.objects ELSE <<>>,
         ground_plane  |-> IF ran THEN g.ground_plane ELSE plane]

\* Step 3 (lines 261-267): the clusters, whether the clusterer ran
ClusterStep(object_points, toggles, how) ==
    LET ran == ClusterGate(toggles.cluster_objects, object_points)
    IN  [ran |-> ran,
         clusters |-> IF ran
                      THEN cluster_points(object_points, min_points,
                               DbscanOutcome(how.dbscan, Len(object_points))).clusters
                      ELSE <<>>]

\* The exception leaves the method: no figure, no summary
Raised(exception, ran, plane) ==
    [raised |-> exception, fig |-> None, results |-> None, ran |-> ran,
     ground_plane |-> plane]

\* process_scan_with_advanced_features after the query: `scan` is what the query
\* returned, `toggles` the three flags, `how` what each Open3D call does when it is
\* reached, `plane` self.ground_plane before the call.  The result: the exception
\* that left the method (if any), the figure, the summary, the stages that ran and
\* self.ground_plane after the call.
process_scan_with_advanced_features(scan, toggles, how, plane) ==
    IF scan = None THEN NoResult @@ [ground_plane |-> plane]
    ELSE
    Bind(convert_readings_to_points(
             Some([timestamp |-> scan[1].timestamp, device_id |-> scan[1].device_id,
                   readings  |-> DictItems(scan[1].readings)])),
      LAMBDA conv :
        IF conv.raised # "" THEN Raised(conv.raised, NoResult.ran, plane)
        ELSE IF conv.points = None \/ Len(conv.points[1]) = 0
        THEN NoResult @@ [ground_plane |-> plane]
        ELSE
        Bind(FilterStep(conv.points[1], conv.colors[1], toggles, how),
          LAMBDA f :
            IF f.raised
            THEN Raised("IndexError",
                        [filter |-> TRUE, segment |-> FALSE, cluster |-> FALSE], plane)
            ELSE
            Bind(SegmentStep(f.points, f.colors, toggles, how, plane),
              LAMBDA g :
                IF g.raised
                THEN Raised("IndexError",
                            [filter |-> f.ran, segment |-> TRUE, cluster |-> FALSE],
                            g.ground_plane)
                ELSE
                Bind(ClusterStep(g.object_points, toggles, how),
                  LAMBDA c :
                    [raised |-> "",
                     fig |-> Some(create_enhanced_plotly_figure(
                                 conv.points[1], g.ground_points, g.object_points,
                                 c.clusters)),
                     results |-> Some(
                         [timestamp       |-> scan[1].timestamp,
                          original_points |-> Len(conv.points[1]),
                          filtered_points |-> Len(f.points),
                          ground_points   |-> Len(g.ground_points),
                          object_points   |-> Len(g.object_points),
                          clusters        |-> Len(c.clusters),
                          processing_results |->
                              IF c.ran /\ Len(c.clusters) > 0
                              THEN Some(ClusterDimensions(c.clusters)) ELSE None]),
                     ran |-> [filter |-> f.ran, segment |-> g.ran, cluster |-> c.ran],
                     ground_plane |-> g.ground_plane]))))

----------------------------------------------------------------------------
\* SpecOrchestrator: one call of the orchestrator, for the scan of timestamp 1 or
\* for the latest scan, on a store that holds a scan of up to MaxPoints readings
\* under timestamp 1 and possibly a later scan of two readings under timestamp 2,
\* with every combination of the toggles and every outcome of the Open3D calls

LaterReadings == << <<"angle_0", 100>>, <<"angle_90", 50>> >>

ScanRow(id, timestamp) ==
    [id |-> id, timestamp |-> timestamp, device_id |-> "lidar-1", latency_ms |-> None]

StoredReadings(data_id, items) ==
    [k \in 1..Len(items) |->
        [data_id |-> data_id, angle |-> items[k][1], value |-> items[k][2]]]

\* The recorder has stored the scans, committed them on shutdown and ended.
InitOrchestrator ==
    /\ pc = "exited"
    /\ retry_count = 0
    /\ attempts = 1
    /\ link = "down"
    /\ now = 0
    /\ db_connection = "closed"
    /\ latencies = <<>>
    /\ start_time = Some(0)
    /\ last_report_time = 0
    /\ performance_stats = <<>>
    /\ delivered = None
    /\ reported = None
    /\ scan_data = None
    /\ first_connect = Some(0)
    /\ exit_status = Some(1)
    /\ setup = "ok"
    /\ input_points = <<>>
    /\ input_scan = None
    /\ latest_timestamp = None
    /\ ground_plane = None
    /\ returned = None
    /\ ServerIdle
    /\ \E n \in 0..MaxPoints, shape \in {"sender", "no_number_middle"},
          later \in BOOLEAN :
           /\ sensor_data = <<ScanRow(1, 1)>> \o
                                (IF later THEN <<ScanRow(2, 2)>> ELSE <<>>)
           /\ sensor_readings = StoredReadings(1, ScanReadings(n, shape)) \o
                                (IF later THEN StoredReadings(2, LaterReadings) ELSE <<>>)
           /\ message_counts = Len(sensor_data)
           /\ committed = Commit(sensor_data, sensor_readings, performance_stats)
           /\ commits = <<[kind |-> "close", at |-> Len(sensor_data),
                           scans |-> Len(sensor_data)]>>

Toggles == [filter_outliers : BOOLEAN, segment_ground : BOOLEAN, cluster_objects : BOOLEAN]

Hows == [outliers : OutlierHows, plane : PlaneHows, dbscan : DbscanHows]

\* visualizer.process_scan_with_advanced_features(timestamp, ...) on a connection of
\* its own: the query, then the stages.  A timestamp of None asks for the latest scan.
ProcessScan(timestamp, toggles, how) ==
    LET data     == SubSeq(sensor_data, 1, committed.data)
        readings == SubSeq(sensor_readings, 1, committed.readings)
        latest   == timestamp = None \/ timestamp[1] = 0
    IN  /\ \E scan \in (IF latest THEN get_latest_scan(data, readings)
                        ELSE get_historical_scan(data, readings, timestamp[1])) :
           \E r \in {process_scan_with_advanced_features(scan, toggles, how,
                                                        ground_plane)} :
                   /\ returned' = Some([op |-> "process_scan_with_advanced_features",
                                        timestamp |-> timestamp, toggles |-> toggles,
                                        how |-> how, scan |-> scan, result |-> r])
                   /\ ground_plane' = r.ground_plane
                   /\ latest_timestamp' = IF latest /\ scan # None
                                          THEN Some(scan[1].timestamp)
                                          ELSE latest_timestamp
        /\ UNCHANGED <<receiverVars, serverVars, input_points, input_scan>>

OrchestratorCall ==
    /\ returned = None
    /\ \E timestamp \in {None, Some(1)},
          toggles \in Toggles, how \in Hows :
           ProcessScan(timestamp, toggles, how)

NextOrchestrator == OrchestratorCall

SpecOrchestrator == InitOrchestrator /\ [][NextOrchestrator]_vars

\* The durable scan the last call asked for (that of its timestamp, or the latest
\* one) has a reading whose label has a number.
AskedScanHasValidPoint ==
    LET asked == IF returned[1].timestamp # None THEN returned[1].timestamp[1]
                 ELSE SeqMax([i \in 1..committed.data |-> sensor_data[i].timestamp])
    IN  \E i \in 1..committed.data, j \in 1..committed.readings :
            /\ sensor_data[i].timestamp = asked
            /\ sensor_readings[j].data_id = sensor_data[i].id
            /\ Degrees[sensor_readings[j].angle] # None

\* C16: for a stored scan with at least one valid point, whatever the toggles and
\* whatever the stages find, the orchestrator raises nothing and returns a figure
\* and a summary, never (None, {}).
C16_OrchestratorAlwaysReturns ==
    (Called("process_scan_with_advanced_features") /\ AskedScanHasValidPoint) =>
        /\ returned[1].result.raised = ""
        /\ returned[1].result.fig # None
        /\ returned[1].result.results # None
        /\ returned[1].result.results[1].original_points >= 1

\* C16 witness: all three stages enabled on a scan of two valid points, too few for
\* every stage; the figure shows nothing but the axes.
C16_Witness ==
    /\ Called("process_scan_with_advanced_features")
    /\ returned[1].toggles = [filter_outliers |-> TRUE, segment_ground |-> TRUE,
                              cluster_objects |-> TRUE]
    /\ returned[1].result.results # None
    /\ returned[1].result.results[1].original_points = 2
    /\ returned[1].result.ran = [filter |-> FALSE, segment |-> FALSE, cluster |-> FALSE]
    /\ Len(returned[1].result.fig[1]) = 3

\* C17: with clustering enabled and ground segmentation disabled, the clusterer
\* runs whenever at least min_points points are left after filtering.
C17_ClusteringWithoutSegmentation ==
    (/\ Called("process_scan_with_advanced_features")
     /\ returned[1].result.results # None
     /\ returned[1].toggles.cluster_objects
     /\ ~returned[1].toggles.segment_ground
     /\ returned[1].result.results[1].filtered_points >= min_points) =>
        returned[1].result.ran.cluster

\* C27: in a call that returns a summary, ground segmentation runs when it is
\* enabled and at least ransac_n points are left after filtering, and clustering
\* runs when it is enabled and at least min_points points are not ground.
C27_StagesRunAtTheirPrecondition ==
    (Called("process_scan_with_advanced_features")
         /\ returned[1].result.results # None) =>
        /\ (returned[1].toggles.segment_ground
               /\ returned[1].result.results[1].filtered_points >= ransac_n)
              => returned[1].result.ran.segment
        /\ (returned[1].toggles.cluster_objects
               /\ returned[1].result.results[1].object_points >= min_points)
              => returned[1].result.ran.cluster

\* C28: in every summary returned, filtered_points <= original_points; when the
\* segmentation ran, ground_points + object_points = filtered_points; the point
\* counts of the clusters sum to at most object_points; and when clusters > 0
\* there is one entry of dimensions for each cluster.
C28_SummaryCountsConsistent ==
    (Called("process_scan_with_advanced_features")
         /\ returned[1].result.results # None) =>
        LET results == returned[1].result.results[1]
            cluster_dimensions ==
                IF results.processing_results = None THEN <<>>
                ELSE results.processing_results[1]
        IN  /\ results.filtered_points <= results.original_points
            /\ returned[1].result.ran.segment =>
                   results.ground_points + results.object_points
                       = results.filtered_points
            /\ SeqSum([k \in 1..Len(cluster_dimensions) |->
                           cluster_dimensions[k].point_count]) <= results.object_points
            /\ results.clusters > 0 => Len(cluster_dimensions) = results.clusters

----------------------------------------------------------------------------
\* The connections of the visualizer (visualizer.py:39-55) and the callbacks of the
\* dashboard server (src/visualizer/point_cloud_server.py) on the one visualizer of
\* the module (point_cloud_server.py:32).  A callback is a sequence of steps, one
\* for each access to the state the threads share; between two steps of a thread
\* the other thread may run.

MaxConnections == 3

Connection(thread) == [creator |-> thread, open |-> TRUE, users |-> {}, closers |-> {}]

\* get_connection(): the connection of the calling thread, made on first use; None
\* when sqlite3.connect raises
get_connection(thread, connects) ==
    LET slot   == Local(thread)
        handle == Len(connections) + 1
    IN  IF local[slot] # None
        THEN [conn |-> local[slot], local |-> local, connections |-> connections]
        ELSE IF connects
        THEN [conn |-> Some(handle),
              local |-> [local EXCEPT ![slot] = Some(handle)],
              connections |-> Append(connections, Connection(thread))]
        ELSE [conn |-> None, local |-> local, connections |-> connections]

\* conn.cursor() and cursor.execute(...) by a thread
Execute(conns, conn, thread) ==
    [conns EXCEPT ![conn[1]].users = @ \cup {thread}]

\* get_timestamp_list(limit): the distinct timestamps, the latest first
get_timestamp_list(data) ==
    LET T == {data[i].timestamp : i \in 1..Len(data)}
    IN  [k \in 1..Cardinality(T) |->
            CHOOSE t \in T : Cardinality({u \in T : u > t}) = k - 1]

\* create_open3d_point_cloud(points, colors)
create_open3d_point_cloud(points, colors) == [points |-> points, colors |-> colors]

\* create_plotly_point_cloud(points, colors): the title of the figure and the
\* number of its points
create_plotly_point_cloud(points, colors) ==
    IF Len(points) = 0 THEN None
    ELSE Some([title |-> latest_timestamp, size |-> Len(points)])

\* The scan a query returned, as convert_readings_to_points reads it
AsScanData(scan) ==
    IF scan = None THEN None
    ELSE Some([timestamp |-> scan[1].timestamp, device_id |-> scan[1].device_id,
               readings  |-> DictItems(scan[1].readings)])

DurableData == SubSeq(sensor_data, 1, committed.data)
DurableReadings == SubSeq(sensor_readings, 1, committed.readings)

\* The callbacks of the dashboard and the queries a thread may call directly
Callbacks == {"update_point_cloud", "download_point_cloud", "update_timestamp_options"}
Queries == {"get_historical_scan", "get_latest_scan", "get_timestamp_list"}

\* A thread whose call has returned
Finished(op, timestamp, fields) ==
    [IdleThread EXCEPT !.out = Some([op |-> op, timestamp |-> timestamp] @@ fields)]

\* The call of the thread ends.
Return(thread, fields) ==
    threads' = [threads EXCEPT ![thread] =
                   Finished(threads[thread].op, threads[thread].timestamp, fields)]

\* The thread goes on to its next step.
Goto(thread, at) == threads' = [threads EXCEPT ![thread].at = at]

\* The early return of the two callbacks that take the timestamp of the dropdown
NoTimestamp(op) ==
    IF op = "update_point_cloud"
    THEN [fig |-> None, metadata |-> None, failed |-> FALSE]
    ELSE [file |-> None]

\* What a query returns without rows or without a connection
NoRows(op) ==
    IF op \in {"get_timestamp_list", "update_timestamp_options"}
    THEN [result |-> <<>>] ELSE [result |-> None]

\* The callback answers "Failed to generate point cloud"
Failed == [fig |-> None, metadata |-> None, failed |-> TRUE]

\* process_scan_by_timestamp returned None: update_point_cloud answers that it
\* failed, download_point_cloud goes on to save_point_cloud
ProcessFailed(thread) ==
    IF threads[thread].op = "update_point_cloud"
    THEN Return(thread, Failed)
    ELSE Goto(thread, "save")

\* A call starts on a free thread: the early return for no timestamp, or
\* get_connection() of the query it makes first
Begin(thread, op, timestamp, connects) ==
    /\ threads[thread].at = "idle"
    /\ local[Local(thread)] # None \/ Len(connections) < MaxConnections
    /\ IF op \in {"update_point_cloud", "download_point_cloud"} /\ timestamp = None
       THEN /\ threads' = [threads EXCEPT ![thread] =
                              Finished(op, timestamp, NoTimestamp(op))]
            /\ UNCHANGED <<local, connections>>
       ELSE LET c == get_connection(thread, connects)
            IN  /\ local' = c.local
                /\ connections' = c.connections
                /\ threads' = [threads EXCEPT ![thread] =
                       IF c.conn # None
                       THEN [IdleThread EXCEPT !.at = "query", !.op = op,
                                               !.timestamp = timestamp, !.conn = c.conn]
                       ELSE IF op = "update_point_cloud"
                       THEN Finished(op, timestamp, Failed)
                       ELSE IF op = "download_point_cloud"
                       THEN [IdleThread EXCEPT !.at = "save", !.op = op,
                                               !.timestamp = timestamp]
                       ELSE Finished(op, timestamp, NoRows(op))]
    /\ UNCHANGED <<receiverVars, vizVars, library, point_cloud, export>>

\* The query on the connection get_connection returned.  sqlite3.Error (a closed
\* connection) is answered like no rows.  get_latest_scan sets
\* self.latest_timestamp when it has found rows.
RunQuery(thread) ==
    /\ threads[thread].at = "query"
    /\ LET me   == threads[thread]
           open == connections[me.conn[1]].open
       IN  /\ connections' = Execute(connections, me.conn, thread)
           /\ CASE me.op \in {"get_timestamp_list", "update_timestamp_options"} ->
                    /\ Return(thread, IF open
                                      THEN [result |-> get_timestamp_list(DurableData)]
                                      ELSE NoRows(me.op))
                    /\ UNCHANGED latest_timestamp
                [] me.op = "get_latest_scan" ->
                    \E scan \in (IF open THEN get_latest_scan(DurableData, DurableReadings)
                                  ELSE {None}) :
                        /\ Return(thread, [result |-> scan])
                        /\ latest_timestamp' = IF scan = None THEN latest_timestamp
                                               ELSE Some(scan[1].timestamp)
                [] me.op = "get_historical_scan" ->
                    \E scan \in (IF open
                                  THEN get_historical_scan(DurableData, DurableReadings,
                                                           me.timestamp[1])
                                  ELSE {None}) :
                        /\ Return(thread, [result |-> scan])
                        /\ UNCHANGED latest_timestamp
                [] OTHER ->
                    \E scan \in (IF open
                                  THEN get_historical_scan(DurableData, DurableReadings,
                                                           me.timestamp[1])
                                  ELSE {None}) :
                        /\ IF scan = None THEN ProcessFailed(thread)
                           ELSE threads' = [threads EXCEPT ![thread].at = "convert",
                                                           ![thread].scan = scan]
                        /\ UNCHANGED latest_timestamp
    /\ UNCHANGED <<receiverVars, input_points, input_scan, ground_plane, returned,
                   library, local, point_cloud, export>>

\* process_scan_by_timestamp, lines 322-328: the points of the scan, kept in
\* self.point_cloud
StorePointCloud(thread) ==
    /\ threads[thread].at = "convert"
    /\ \E conv \in {convert_readings_to_points(AsScanData(threads[thread].scan))} :
           IF conv.raised # ""
           THEN /\ Return(thread, [raised |-> conv.raised])
                /\ UNCHANGED point_cloud
           ELSE IF conv.points = None \/ Len(conv.points[1]) = 0
           THEN /\ ProcessFailed(thread)
                /\ UNCHANGED point_cloud
           ELSE /\ point_cloud' = Some(create_open3d_point_cloud(conv.points[1],
                                                                 conv.colors[1]))
                /\ Goto(thread, "figure")
    /\ UNCHANGED <<receiverVars, vizVars, library, local, connections, export>>

\* process_scan_by_timestamp, line 331: the figure, titled with self.latest_timestamp
CreateFigure(thread) ==
    /\ threads[thread].at = "figure"
    /\ \E conv \in {convert_readings_to_points(AsScanData(threads[thread].scan))} :
           threads' = [threads EXCEPT
               ![thread].fig = create_plotly_point_cloud(conv.points[1], conv.colors[1]),
               ![thread].at = IF threads[thread].op = "update_point_cloud"
                              THEN "metadata" ELSE "save"]
    /\ UNCHANGED <<receiverVars, vizVars, library, local, connections, point_cloud,
                   export>>

\* get_latest_metadata(), lines 350-353: without a latest timestamp it asks for the
\* latest scan, which sets self.latest_timestamp when it finds one
GetLatestMetadata(thread, connects) ==
    /\ threads[thread].at = "metadata"
    /\ IF latest_timestamp # None /\ latest_timestamp[1] # 0
       THEN /\ Goto(thread, "describe")
            /\ UNCHANGED <<local, connections, latest_timestamp>>
       ELSE LET c == get_connection(thread, connects)
            IN  /\ local' = c.local
                /\ IF c.conn = None
                   THEN /\ connections' = c.connections
                        /\ Return(thread, [fig |-> threads[thread].fig,
                                           metadata |-> None, failed |-> FALSE])
                        /\ UNCHANGED latest_timestamp
                   ELSE /\ connections' = Execute(c.connections, c.conn, thread)
                        /\ \E scan \in (IF c.connections[c.conn[1]].open
                                        THEN get_latest_scan(DurableData, DurableReadings)
                                        ELSE {None}) :
                               IF scan = None
                               THEN /\ Return(thread, [fig |-> threads[thread].fig,
                                                       metadata |-> None,
                                                       failed |-> FALSE])
                                    /\ UNCHANGED latest_timestamp
                               ELSE /\ latest_timestamp' = Some(scan[1].timestamp)
                                    /\ Goto(thread, "describe")
    /\ UNCHANGED <<receiverVars, input_points, input_scan, ground_plane, returned,
                   library, point_cloud, export>>

\* get_latest_metadata(), lines 355-359, and the answer of update_point_cloud
DescribeScan(thread) ==
    /\ threads[thread].at = "describe"
    /\ Return(thread,
           [fig |-> threads[thread].fig,
            metadata |-> Some([timestamp   |-> latest_timestamp,
                               point_count |-> IF point_cloud = None THEN 0
                                               ELSE Len(point_cloud[1].points)]),
            failed |-> FALSE])
    /\ UNCHANGED <<receiverVars, vizVars, library, local, connections, point_cloud,
                   export>>

\* save_point_cloud(filename) in download_point_cloud: self.point_cloud written to
\* /tmp/point_cloud_<timestamp>.ply
SavePointCloud(thread) ==
    /\ threads[thread].at = "save"
    /\ IF point_cloud = None
       THEN /\ Return(thread, [file |-> None])
            /\ UNCHANGED export
       ELSE /\ export' = {f \in export : f.filename # threads[thread].timestamp[1]}
                         \cup {[filename |-> threads[thread].timestamp[1],
                                cloud |-> point_cloud[1]]}
            /\ Return(thread, [file |-> threads[thread].timestamp])
    /\ UNCHANGED <<receiverVars, vizVars, library, local, connections, point_cloud>>

\* close_connection() by a thread that runs no callback
CloseConnection(thread) ==
    /\ threads[thread].at = "idle"
    /\ local[Local(thread)] # None
    /\ connections' = [connections EXCEPT
                          ![local[Local(thread)][1]].open = FALSE,
                          ![local[Local(thread)][1]].closers = @ \cup {thread}]
    /\ local' = [local EXCEPT ![Local(thread)] = None]
    /\ UNCHANGED <<receiverVars, vizVars, library, point_cloud, threads, export>>

----------------------------------------------------------------------------
\* SpecServer: two request threads run the callbacks of the dashboard on a store
\* that holds a scan of three readings under timestamp 1 and a scan of two readings
\* under timestamp 2

ServerTimestamps == {1, 2}

\* The recorder has stored the two scans, committed them on shutdown and ended.
InitServer ==
    /\ pc = "exited"
    /\ retry_count = 0
    /\ attempts = 1
    /\ link = "down"
    /\ now = 0
    /\ db_connection = "closed"
    /\ message_counts = 2
    /\ latencies = <<>>
    /\ start_time = Some(0)
    /\ last_report_time = 0
    /\ sensor_data = <<ScanRow(1, 1), ScanRow(2, 2)>>
    /\ sensor_readings = StoredReadings(1, ScanReadings(3, "sender")) \o
                         StoredReadings(2, LaterReadings)
    /\ performance_stats = <<>>
    /\ committed = Commit(sensor_data, sensor_readings, performance_stats)
    /\ commits = <<[kind |-> "close", at |-> 2, scans |-> 2]>>
    /\ delivered = None
    /\ reported = None
    /\ scan_data = None
    /\ first_connect = Some(0)
    /\ exit_status = Some(1)
    /\ setup = "ok"
    /\ input_points = <<>>
    /\ input_scan = None
    /\ latest_timestamp = None
    /\ ground_plane = None
    /\ returned = None
    /\ ServerIdle

\* The calls a thread of the dashboard makes
ServerCall(thread) ==
    \E op \in {"update_point_cloud", "download_point_cloud"},
       timestamp \in {None} \cup {Some(t) : t \in ServerTimestamps},
       connects \in BOOLEAN :
        Begin(thread, op, timestamp, connects)

NextServer ==
    \E thread \in Threads :
        \/ ServerCall(thread)
        \/ RunQuery(thread)
        \/ StorePointCloud(thread)
        \/ CreateFigure(thread)
        \/ \E connects \in BOOLEAN : GetLatestMetadata(thread, connects)
        \/ DescribeScan(thread)
        \/ SavePointCloud(thread)

SpecServer == InitServer /\ [][NextServer]_vars

\* SpecConnections: two threads query the same store through one visualizer and
\* close their connections between queries

QueryCall(thread) ==
    \E op \in Queries \cup {"update_timestamp_options"}, connects \in BOOLEAN :
        \/ /\ op = "get_historical_scan"
           /\ \E t \in ServerTimestamps : Begin(thread, op, Some(t), connects)
        \/ /\ op # "get_historical_scan"
           /\ Begin(thread, op, None, connects)

NextConnections ==
    \E thread \in Threads :
        \/ QueryCall(thread)
        \/ RunQuery(thread)
        \/ CloseConnection(thread)

SpecConnections == InitServer /\ [][NextConnections]_vars

\* C22: a connection is used and closed by the thread that made it and by no
\* other, and the connection a thread is querying on is one it made itself.
C22_ConnectionsNotShared ==
    /\ \A h \in 1..Len(connections) :
           /\ connections[h].users \subseteq {connections[h].creator}
           /\ connections[h].closers \subseteq {connections[h].creator}
    /\ \A thread \in Threads :
           threads[thread].conn # None =>
               connections[threads[thread].conn[1]].creator = thread

\* C22 witness: each thread has made and used a connection of its own; one thread
\* has closed its connection while the other one is in the middle of a query on its
\* open connection.
C22_Witness ==
    \E h, g \in 1..Len(connections) :
        /\ connections[h].creator = "t1"
        /\ connections[h].users = {"t1"}
        /\ connections[h].closers = {"t1"}
        /\ ~connections[h].open
        /\ connections[g].creator = "t2"
        /\ connections[g].users = {"t2"}
        /\ connections[g].open
        /\ threads["t2"].at = "query"
        /\ threads["t2"].conn = Some(g)

\* The point clouds process_scan_by_timestamp(t) can keep for the durable scan of t
CloudOf(t) ==
    {create_open3d_point_cloud(conv.points[1], conv.colors[1]) :
        conv \in {convert_readings_to_points(AsScanData(scan)) :
                     scan \in get_historical_scan(DurableData, DurableReadings, t)
                               \ {None}}}

\* C23: when download_point_cloud(t) has processed the scan of t and then saves,
\* the file it writes holds the point cloud of that scan, whatever the other thread
\* does in between.
C23_ExportIsAskedScan ==
    [][\A thread \in Threads :
          (/\ threads[thread].at = "save"
           /\ threads[thread].fig # None
           /\ threads'[thread].at = "idle") =>
              \A f \in export' :
                  f.filename = threads[thread].timestamp[1] =>
                      f.cloud \in CloudOf(f.filename)]_vars

\* C29: when update_point_cloud(t) has got a figure from
\* process_scan_by_timestamp(t) and the metadata from get_latest_metadata(), the
\* title of the figure and the timestamp of the metadata are t.
C29_MetadataIsOfProcessedScan ==
    \A thread \in Threads :
        (/\ threads[thread].out # None
         /\ threads[thread].out[1].op = "update_point_cloud"
         /\ threads[thread].out[1].timestamp # None
         /\ ~threads[thread].out[1].failed
         /\ threads[thread].out[1].fig # None
         /\ threads[thread].out[1].metadata # None) =>
            /\ threads[thread].out[1].fig[1].title = threads[thread].out[1].timestamp
            /\ threads[thread].out[1].metadata[1].timestamp
                   = threads[thread].out[1].timestamp

----------------------------------------------------------------------------
\* SpecScans: the two scan queries on a store that holds two scans, whose
\* timestamps and devices may be the same or differ

\* The recorder has stored these rows, committed them on shutdown and ended.
RecorderEnded(data, readings) ==
    /\ pc = "exited"
    /\ retry_count = 0
    /\ attempts = 1
    /\ link = "down"
    /\ now = 0
    /\ db_connection = "closed"
    /\ message_counts = Len(data)
    /\ latencies = <<>>
    /\ start_time = Some(0)
    /\ last_report_time = 0
    /\ sensor_data = data
    /\ sensor_readings = readings
    /\ performance_stats = <<>>
    /\ committed = Commit(data, readings, <<>>)
    /\ commits = <<[kind |-> "close", at |-> Len(data), scans |-> Len(data)]>>
    /\ delivered = None
    /\ reported = None
    /\ scan_data = None
    /\ first_connect = Some(0)
    /\ exit_status = Some(1)
    /\ setup = "ok"

Devices == {"lidar-1", "lidar-2"}

\* The readings of the two scans: the example of the design, one reading, none
ScanChoices ==
    {LaterReadings, << <<"angle_0", 70>> >>, << <<"angle_180", 30>> >>, <<>>}

InitScans ==
    /\ input_points = <<>>
    /\ input_scan = None
    /\ latest_timestamp = None
    /\ ground_plane = None
    /\ returned = None
    /\ ServerIdle
    /\ \E t1 \in ServerTimestamps, t2 \in ServerTimestamps, d2 \in Devices,
          r1 \in ScanChoices, r2 \in ScanChoices :
           RecorderEnded(<<[ScanRow(1, t1) EXCEPT !.device_id = "lidar-1"],
                           [ScanRow(2, t2) EXCEPT !.device_id = d2]>>,
                         StoredReadings(1, r1) \o StoredReadings(2, r2))

\* A visualizer asks for the latest scan.
GetLatestScan ==
    /\ \E result \in get_latest_scan(SubSeq(sensor_data, 1, committed.data),
                                     SubSeq(sensor_readings, 1, committed.readings)) :
           /\ scan_data' = Some([asked |-> "latest", result |-> result])
           /\ latest_timestamp' = IF result = None THEN latest_timestamp
                                  ELSE Some(result[1].timestamp)
    /\ UNCHANGED <<pc, link, now, db_connection, message_counts, latencies, start_time,
                   last_report_time, sensor_data, sensor_readings, performance_stats,
                   committed, commits, delivered, reported, first_connect, exit_status,
                   setup, input_points, input_scan, ground_plane, returned, serverVars,
                   connectVars>>

NextScans ==
    \/ \E timestamp \in ServerTimestamps : GetHistoricalScan(timestamp)
    \/ GetLatestScan

SpecScans == InitScans /\ [][NextScans]_vars

\* C25: the readings a scan query returns are readings of one stored scan of the
\* timestamp returned, and the device returned is the device of that scan.
C25_ReadingsOfOneScan ==
    (scan_data # None /\ scan_data[1].result # None) =>
        LET result == scan_data[1].result[1]
        IN  \E i \in 1..committed.data :
                /\ sensor_data[i].timestamp = result.timestamp
                /\ sensor_data[i].device_id = result.device_id
                /\ \A a \in DOMAIN result.readings :
                       \E j \in 1..committed.readings :
                           /\ sensor_readings[j].data_id = sensor_data[i].id
                           /\ sensor_readings[j].angle = a
                           /\ sensor_readings[j].value = result.readings[a]

====
